---- MODULE Spec2Model ----
(***************************************************************************)
(* mirror-to-gitea: one run of main() (configuration, destination          *)
(* organization preparation, source collection, filtering, target          *)
(* pre-resolution, the per-repository mirror loop) and its re-invocation   *)
(* by docker-entrypoint.sh, against a destination (Gitea) and a source     *)
(* (GitHub) whose requests can fail.                                       *)
(*                                                                         *)
(* Strings that are pattern-matched (repository names, glob patterns) are  *)
(* sequences of one-character strings; all other names are strings.        *)
(***************************************************************************)
EXTENDS Integers, Sequences, FiniteSets, TLC

VARIABLES
    env,            \* the process environment read by config.Load
    github,         \* the source account's content (environment)
    dest,           \* the destination: [orgs, mirrors]
    pc,             \* position of main(): load, prepOrg, prepStarred, collect,
                    \* getUser, preResolve, mirror, done, fatal
    cfg,            \* *config.Config returned by Load
    filteredRepos,  \* main.go:65
    giteaUser,      \* main.go:69
    uniqueOrgs,     \* main.go:78, the names not yet ranged over
    orgTargets,     \* main.go:75
    idx,            \* position of the loop of main.go:105
    exitStatus,     \* process exit status of the run (0 until log.Fatalf)
    run,            \* number of the current invocation by docker-entrypoint.sh
    faults,         \* requests that failed so far although the peer would answer
    calls,          \* requests sent by the last step, in order
    mutations,      \* mutating destination requests sent so far in this run
    last,           \* what the last mirrorRepository call did
    processed,      \* per loop iteration of this run: repository, error, create call
    hist,           \* what earlier steps and the previous run did
    io              \* argument and result of a function checked on its own

vars == <<env, github, dest, pc, cfg, filteredRepos, giteaUser, uniqueOrgs,
          orgTargets, idx, exitStatus, run, faults, calls, mutations, last,
          processed, hist, io>>

(***************************************************************************)
(* Bounds                                                                  *)
(***************************************************************************)
\* invocations of the binary by the entrypoint loop that are followed
MaxRuns == 2
\* requests that fail although the peer's state would answer them
MaxFaults == 1
\* issues of a source repository that has issues
MaxIssues == 1

(***************************************************************************)
(* Small helpers                                                           *)
(***************************************************************************)
Range(s) == {s[i] : i \in 1..Len(s)}

(***************************************************************************)
(* config.Load                                                             *)
(***************************************************************************)
readBoolean(val) == val \in {"true", "TRUE", "1"}

\* strings.Split on "," is given as the sequence of its parts; blank parts
\* (empty after TrimSpace) are written <<>> for patterns and "" for names
splitAndTrim(parts, blank) == SelectSeq(parts, LAMBDA part : part # blank)

NoConfig == [err |-> TRUE]

\* a Load without the token test of private mirroring
LoadPrivateUnchecked(e) ==
    IF e.GITHUB_USERNAME = "" \/ e.GITEA_URL = "" \/ e.GITEA_TOKEN = ""
    THEN NoConfig
    ELSE IF (readBoolean(e.MIRROR_ISSUES) \/ readBoolean(e.MIRROR_STARRED)
             \/ readBoolean(e.MIRROR_ORGANIZATIONS) \/ e.SINGLE_REPO # <<>>)
            /\ e.GITHUB_TOKEN = ""
    THEN NoConfig
    ELSE [err |-> FALSE,
          GitHub |-> [Username |-> e.GITHUB_USERNAME,
                      Token |-> e.GITHUB_TOKEN,
                      SkipForks |-> readBoolean(e.SKIP_FORKS),
                      PrivateRepositories |-> readBoolean(e.MIRROR_PRIVATE_REPOSITORIES),
                      MirrorIssues |-> readBoolean(e.MIRROR_ISSUES),
                      MirrorStarred |-> readBoolean(e.MIRROR_STARRED),
                      MirrorOrganizations |-> readBoolean(e.MIRROR_ORGANIZATIONS),
                      UseSpecificUser |-> readBoolean(e.USE_SPECIFIC_USER),
                      SingleRepo |-> e.SINGLE_REPO,
                      IncludeOrgs |-> splitAndTrim(e.INCLUDE_ORGS, ""),
                      ExcludeOrgs |-> splitAndTrim(e.EXCLUDE_ORGS, ""),
                      PreserveOrgStructure |-> readBoolean(e.PRESERVE_ORG_STRUCTURE),
                      SkipStarredIssues |-> readBoolean(e.SKIP_STARRED_ISSUES)],
          Gitea |-> [URL |-> e.GITEA_URL,
                     Token |-> e.GITEA_TOKEN,
                     Organization |-> e.GITEA_ORGANIZATION,
                     StarredReposOrg |-> IF e.GITEA_STARRED_ORGANIZATION = ""
                                         THEN "github"
                                         ELSE e.GITEA_STARRED_ORGANIZATION],
          DryRun |-> readBoolean(e.DRY_RUN),
          Include |-> splitAndTrim(IF e.INCLUDE = <<>> THEN <<<<"*">>>> ELSE e.INCLUDE, <<>>),
          Exclude |-> splitAndTrim(e.EXCLUDE, <<>>)]

Load(e) ==
    IF e.GITHUB_USERNAME = "" \/ e.GITEA_URL = "" \/ e.GITEA_TOKEN = ""
    THEN NoConfig
    ELSE IF readBoolean(e.MIRROR_PRIVATE_REPOSITORIES) /\ e.GITHUB_TOKEN = ""
    THEN NoConfig
    ELSE IF (readBoolean(e.MIRROR_ISSUES) \/ readBoolean(e.MIRROR_STARRED)
             \/ readBoolean(e.MIRROR_ORGANIZATIONS) \/ e.SINGLE_REPO # <<>>)
            /\ e.GITHUB_TOKEN = ""
    THEN NoConfig
    ELSE [err |-> FALSE,
          GitHub |-> [Username |-> e.GITHUB_USERNAME,
                      Token |-> e.GITHUB_TOKEN,
                      SkipForks |-> readBoolean(e.SKIP_FORKS),
                      PrivateRepositories |-> readBoolean(e.MIRROR_PRIVATE_REPOSITORIES),
                      MirrorIssues |-> readBoolean(e.MIRROR_ISSUES),
                      MirrorStarred |-> readBoolean(e.MIRROR_STARRED),
                      MirrorOrganizations |-> readBoolean(e.MIRROR_ORGANIZATIONS),
                      UseSpecificUser |-> readBoolean(e.USE_SPECIFIC_USER),
                      SingleRepo |-> e.SINGLE_REPO,
                      IncludeOrgs |-> splitAndTrim(e.INCLUDE_ORGS, ""),
                      ExcludeOrgs |-> splitAndTrim(e.EXCLUDE_ORGS, ""),
                      PreserveOrgStructure |-> readBoolean(e.PRESERVE_ORG_STRUCTURE),
                      SkipStarredIssues |-> readBoolean(e.SKIP_STARRED_ISSUES)],
          Gitea |-> [URL |-> e.GITEA_URL,
                     Token |-> e.GITEA_TOKEN,
                     Organization |-> e.GITEA_ORGANIZATION,
                     StarredReposOrg |-> IF e.GITEA_STARRED_ORGANIZATION = ""
                                         THEN "github"
                                         ELSE e.GITEA_STARRED_ORGANIZATION],
          DryRun |-> readBoolean(e.DRY_RUN),
          Include |-> splitAndTrim(IF e.INCLUDE = <<>> THEN <<<<"*">>>> ELSE e.INCLUDE, <<>>),
          Exclude |-> splitAndTrim(e.EXCLUDE, <<>>)]

(***************************************************************************)
(* Pattern matching (doublestar.Match as called by filterRepositories)     *)
(* on names that hold no path separator: "*" and "**" match any run of     *)
(* characters, "?" one character, "[" opens a character class and, the     *)
(* alphabet holding no "]", is always an unterminated class: a malformed   *)
(* pattern, for which Match returns ErrBadPattern.                         *)
(***************************************************************************)
Malformed(pattern) == \E i \in 1..Len(pattern) : pattern[i] = "["

RECURSIVE GlobMatch(_, _)
GlobMatch(pattern, name) ==
    IF pattern = <<>> THEN name = <<>>
    ELSE IF Head(pattern) = "*"
    THEN GlobMatch(Tail(pattern), name)
         \/ (name # <<>> /\ GlobMatch(pattern, Tail(name)))
    ELSE IF Head(pattern) = "?"
    THEN name # <<>> /\ GlobMatch(Tail(pattern), Tail(name))
    ELSE name # <<>> /\ Head(name) = Head(pattern)
         /\ GlobMatch(Tail(pattern), Tail(name))

Match(pattern, name) ==
    IF Malformed(pattern) THEN [matched |-> FALSE, err |-> TRUE]
    ELSE [matched |-> GlobMatch(pattern, name), err |-> FALSE]

(***************************************************************************)
(* main.filterRepositories                                                 *)
(***************************************************************************)
\* the loop of main.go:119-126
RECURSIVE includeLoop(_, _)
includeLoop(include, name) ==
    IF include = <<>> THEN FALSE
    ELSE LET m == Match(Head(include), name)
         IN  IF ~m.err /\ m.matched THEN TRUE
             ELSE includeLoop(Tail(include), name)

\* an exclude loop that takes the error of a pattern for a match
RECURSIVE excludeLoopOnError(_, _)
excludeLoopOnError(exclude, name) ==
    IF exclude = <<>> THEN FALSE
    ELSE LET m == Match(Head(exclude), name)
         IN  IF m.err \/ m.matched THEN TRUE
             ELSE excludeLoopOnError(Tail(exclude), name)

\* the loop of main.go:133-140
RECURSIVE excludeLoop(_, _)
excludeLoop(exclude, name) ==
    IF exclude = <<>> THEN FALSE
    ELSE LET m == Match(Head(exclude), name)
         IN  IF ~m.err /\ m.matched THEN TRUE
             ELSE excludeLoop(Tail(exclude), name)

\* a filter that leaves out the first repository it retains
filterRepositoriesDropsFirst(repos, include, exclude) ==
    LET kept == SelectSeq(repos, LAMBDA repo : /\ includeLoop(include, repo.Name)
                                               /\ ~excludeLoop(exclude, repo.Name))
    IN  IF kept = <<>> THEN <<>> ELSE Tail(kept)

RECURSIVE filterRepositories(_, _, _)
filterRepositories(repos, include, exclude) ==
    IF repos = <<>> THEN <<>>
    ELSE LET repo == Head(repos)
             rest == filterRepositories(Tail(repos), include, exclude)
             includeMatch == includeLoop(include, repo.Name)
             excludeMatch == excludeLoop(exclude, repo.Name)
         IN  IF ~includeMatch THEN rest
             ELSE IF ~excludeMatch THEN <<repo>> \o rest
             ELSE rest

(***************************************************************************)
(* The source collector (package github)                                   *)
(*                                                                         *)
(* A source repository (github.Repository) is a record                     *)
(*   [name, url, private, fork, owner, hasIssues].                         *)
(* A paginated listing of the source API is [items, failAt]: the server    *)
(* returns the items PageSize to a page (always at least one page), and    *)
(* the request for page failAt fails (0: none does).                       *)
(***************************************************************************)
\* items the source returns per page
PageSize == 1

NumPages(items) ==
    IF Len(items) = 0 THEN 1 ELSE (Len(items) + PageSize - 1) \div PageSize

Min(a, b) == IF a < b THEN a ELSE b

\* the pagination loops "for { ...; if resp.NextPage == 0 { break } }":
\* what was appended when the loop ended, and whether it ended on an error
Paginate(listing) ==
    LET failed == listing.failAt \in 1..NumPages(listing.items)
    IN  [err |-> failed,
         items |-> IF failed
                   THEN SubSeq(listing.items, 1,
                               Min(Len(listing.items), (listing.failAt - 1) * PageSize))
                   ELSE listing.items]

\* a request: to is "gitea" or "github"; issue is the number of the issue
\* the request names in its body or path, 0 when it names none
Req(to, method, kind, owner, repo, token) ==
    [to |-> to, method |-> method, kind |-> kind, owner |-> owner, repo |-> repo,
     token |-> token, issue |-> 0]

\* a request to the destination that names an issue
IssueReq(kind, owner, repo, number) ==
    [Req("gitea", "POST", kind, owner, repo, "") EXCEPT !.issue = number]

\* a request to the source API
SrcReq(kind, owner) == Req("github", "GET", kind, owner, <<>>, "")

toRepository(repo, preserveOrg) ==
    [Name |-> repo.name, URL |-> repo.url, Private |-> repo.private,
     Fork |-> repo.fork, Owner |-> repo.owner, HasIssues |-> repo.hasIssues,
     Organization |-> "", Starred |-> FALSE]

toRepositoryList(repos, preserveOrg) ==
    [i \in 1..Len(repos) |-> toRepository(repos[i], preserveOrg)]

\* a withoutForks that drops nothing
withoutForksKeepsAll(repositories) == repositories

withoutForks(repositories) == SelectSeq(repositories, LAMBDA repo : ~repo.Fork)

RECURSIVE dedupLoop(_, _)
dedupLoop(repositories, seen) ==
    IF repositories = <<>> THEN <<>>
    ELSE LET repo == Head(repositories)
         IN  IF repo.URL \notin seen
             THEN <<repo>> \o dedupLoop(Tail(repositories), seen \cup {repo.URL})
             ELSE dedupLoop(Tail(repositories), seen)

\* a deduplication that keeps the record seen last for a URL
RECURSIVE filterDuplicatesKeepLast(_)
filterDuplicatesKeepLast(repositories) ==
    IF repositories = <<>> THEN <<>>
    ELSE LET repo == Head(repositories)
             rest == Tail(repositories)
         IN  IF \E i \in 1..Len(rest) : rest[i].URL = repo.URL
             THEN filterDuplicatesKeepLast(rest)
             ELSE <<repo>> \o filterDuplicatesKeepLast(rest)

filterDuplicates(repositories) == dedupLoop(repositories, {})

fetchPublicRepositories(src, username) ==
    LET l == Paginate(src.public)
    IN  [err |-> l.err,
         repos |-> IF l.err THEN <<>> ELSE toRepositoryList(l.items, FALSE),
         reqs |-> <<SrcReq("list-owned", username)>>]

fetchPrivateRepositories(src, token) ==
    LET l == Paginate(src.private)
    IN  [err |-> l.err,
         repos |-> IF l.err THEN <<>> ELSE toRepositoryList(l.items, FALSE),
         reqs |-> <<Req("github", "GET", "list-private", "", <<>>, token)>>]

fetchStarredRepositories(src, username) ==
    LET l == Paginate(src.starred[username])
        repos == toRepositoryList(l.items, FALSE)
    IN  [err |-> l.err,
         repos |-> IF l.err THEN <<>>
                   ELSE [i \in 1..Len(repos) |-> [repos[i] EXCEPT !.Starred = TRUE]],
         reqs |-> <<SrcReq("list-starred", username)>>]

\* an organization filter in which a name of the include list passes
\* whatever the exclude list holds
RECURSIVE orgFilterLoopIncludeWins(_, _, _)
orgFilterLoopIncludeWins(allOrgs, includeOrgs, excludeOrgs) ==
    IF allOrgs = <<>> THEN <<>>
    ELSE LET orgName == Head(allOrgs)
             rest == orgFilterLoopIncludeWins(Tail(allOrgs), includeOrgs, excludeOrgs)
             include == \E i \in 1..Len(includeOrgs) : includeOrgs[i] = orgName
             exclude == \E i \in 1..Len(excludeOrgs) : excludeOrgs[i] = orgName
         IN  IF Len(includeOrgs) > 0 /\ ~include THEN rest
             ELSE IF exclude /\ ~include THEN rest
             ELSE <<orgName>> \o rest

\* part_001:260-292
RECURSIVE orgFilterLoop(_, _, _)
orgFilterLoop(allOrgs, includeOrgs, excludeOrgs) ==
    IF allOrgs = <<>> THEN <<>>
    ELSE LET orgName == Head(allOrgs)
             rest == orgFilterLoop(Tail(allOrgs), includeOrgs, excludeOrgs)
             include == \E i \in 1..Len(includeOrgs) : includeOrgs[i] = orgName
             exclude == \E i \in 1..Len(excludeOrgs) : excludeOrgs[i] = orgName
         IN  IF Len(includeOrgs) > 0 /\ ~include THEN rest
             ELSE IF exclude THEN rest
             ELSE <<orgName>> \o rest

\* part_001:296-355
RECURSIVE orgRepoLoop(_, _, _, _)
orgRepoLoop(src, orgsToProcess, preserveOrgStructure, privateRepoAccess) ==
    IF orgsToProcess = <<>> THEN [repos |-> <<>>, reqs |-> <<>>]
    ELSE LET orgName == Head(orgsToProcess)
             l == IF privateRepoAccess THEN Paginate(src.orgSearch[orgName])
                  ELSE Paginate(src.orgPublic[orgName])
             repos == toRepositoryList(l.items, preserveOrgStructure)
             tagged == IF preserveOrgStructure
                       THEN [i \in 1..Len(repos) |->
                               [repos[i] EXCEPT !.Organization = orgName]]
                       ELSE repos
             rest == orgRepoLoop(src, Tail(orgsToProcess), preserveOrgStructure,
                                 privateRepoAccess)
         IN  [repos |-> tagged \o rest.repos,
              reqs |-> <<SrcReq("list-org", orgName)>> \o rest.reqs]

fetchOrganizationRepositories(src, username, includeOrgs, excludeOrgs, preserveOrgStructure, privateRepoAccess) ==
    LET l == Paginate(src.orgs[username])
        orgsToProcess == orgFilterLoop(l.items, includeOrgs, excludeOrgs)
        r == orgRepoLoop(src, orgsToProcess, preserveOrgStructure, privateRepoAccess)
    IN  IF l.err THEN [err |-> TRUE, repos |-> <<>>, reqs |-> <<SrcReq("list-orgs", username)>>]
        ELSE [err |-> FALSE, repos |-> r.repos, reqs |-> <<SrcReq("list-orgs", username)>> \o r.reqs]

(***************************************************************************)
(* fetchSingleRepository. The token is a sequence of atoms: one-character  *)
(* strings, "/" and the two affixes the code trims.                        *)
(***************************************************************************)
UrlPrefix == "https://github.com/"
GitSuffix == ".git"

TrimPrefix(s) == IF s # <<>> /\ Head(s) = UrlPrefix THEN Tail(s) ELSE s

TrimSuffix(s) ==
    IF s # <<>> /\ s[Len(s)] = GitSuffix THEN SubSeq(s, 1, Len(s) - 1) ELSE s

\* strings.Split(repoPath, "/"); an untrimmed UrlPrefix holds three separators
RECURSIVE SplitSlash(_)
SplitSlash(s) ==
    IF s = <<>> THEN << <<>> >>
    ELSE LET rest == SplitSlash(Tail(s))
         IN  IF Head(s) = "/" THEN << <<>> >> \o rest
             ELSE IF Head(s) = UrlPrefix
             THEN << <<"https:">>, <<>>, <<"github.com">> >> \o rest
             ELSE << <<Head(s)>> \o Head(rest) >> \o Tail(rest)

\* a fetchSingleRepository that looks up a token of any number of parts
fetchSingleRepositoryUnparsed(src, repoURL) ==
    LET repoPath == TrimSuffix(TrimPrefix(repoURL))
        parts == SplitSlash(repoPath)
        found == {r \in src.all : <<r.owner>> = parts[1] /\ r.name = parts[2]}
    IN  IF Len(parts) # 2
        THEN [err |-> TRUE, repos |-> <<>>,
              reqs |-> <<Req("github", "GET", "get-repo", "", repoPath, "")>>]
        ELSE IF found = {} \/ src.getFails
        THEN [err |-> TRUE, repos |-> <<>>,
              reqs |-> <<Req("github", "GET", "get-repo", "", repoPath, "")>>]
        ELSE [err |-> FALSE,
              repos |-> <<toRepository(CHOOSE r \in found : TRUE, FALSE)>>,
              reqs |-> <<Req("github", "GET", "get-repo", "", repoPath, "")>>]

fetchSingleRepository(src, repoURL) ==
    LET repoPath == TrimSuffix(TrimPrefix(repoURL))
        parts == SplitSlash(repoPath)
        owner == parts[1]
        repoName == parts[2]
        found == {r \in src.all : <<r.owner>> = owner /\ r.name = repoName}
    IN  IF Len(parts) # 2 THEN [err |-> TRUE, repos |-> <<>>, reqs |-> <<>>]
        ELSE IF found = {} \/ src.getFails
        THEN [err |-> TRUE, repos |-> <<>>,
              reqs |-> <<Req("github", "GET", "get-repo", "", repoPath, "")>>]
        ELSE [err |-> FALSE,
              repos |-> <<toRepository(CHOOSE r \in found : TRUE, FALSE)>>,
              reqs |-> <<Req("github", "GET", "get-repo", "", repoPath, "")>>]

(***************************************************************************)
(* GetRepositories                                                         *)
(***************************************************************************)
Failed(reqs) == [err |-> TRUE, repos |-> <<>>, reqs |-> reqs]

GetRepositories(src, token, opts) ==
    LET username == IF opts.UseSpecificUser THEN opts.Username ELSE ""
        single == fetchSingleRepository(src, opts.SingleRepo)
        publicRepos == fetchPublicRepositories(src, opts.Username)
        privateRepos == fetchPrivateRepositories(src, token)
        starredRepos == fetchStarredRepositories(src, username)
        orgRepos == fetchOrganizationRepositories(src, username, opts.IncludeOrgs,
                        opts.ExcludeOrgs, opts.PreserveOrgStructure,
                        opts.PrivateRepositories)
        skip(repositories) == IF opts.SkipForks THEN withoutForks(repositories)
                              ELSE repositories
        r1 == publicRepos.reqs
        r2 == r1 \o (IF opts.PrivateRepositories THEN privateRepos.reqs ELSE <<>>)
        r3 == r2 \o (IF opts.MirrorStarred THEN starredRepos.reqs ELSE <<>>)
        r4 == r3 \o (IF opts.MirrorOrganizations THEN orgRepos.reqs ELSE <<>>)
    IN  IF opts.SingleRepo # <<>>
        THEN IF single.err THEN Failed(single.reqs)
             ELSE [err |-> FALSE, repos |-> skip(single.repos), reqs |-> single.reqs]
        ELSE IF publicRepos.err THEN Failed(r1)
        ELSE IF opts.PrivateRepositories /\ privateRepos.err THEN Failed(r2)
        ELSE IF opts.MirrorStarred /\ starredRepos.err THEN Failed(r3)
        ELSE IF opts.MirrorOrganizations /\ orgRepos.err THEN Failed(r4)
        ELSE [err |-> FALSE,
              repos |-> skip(filterDuplicates(
                           publicRepos.repos
                           \o (IF opts.PrivateRepositories THEN privateRepos.repos
                               ELSE <<>>)
                           \o (IF opts.MirrorStarred THEN starredRepos.repos ELSE <<>>)
                           \o (IF opts.MirrorOrganizations THEN orgRepos.repos
                               ELSE <<>>))),
              reqs |-> r4]

\* main.go:48-59
FetchOptions(c) ==
    [Username |-> c.GitHub.Username,
     PrivateRepositories |-> c.GitHub.PrivateRepositories,
     SkipForks |-> c.GitHub.SkipForks,
     MirrorStarred |-> c.GitHub.MirrorStarred,
     MirrorOrganizations |-> c.GitHub.MirrorOrganizations,
     SingleRepo |-> c.GitHub.SingleRepo,
     IncludeOrgs |-> c.GitHub.IncludeOrgs,
     ExcludeOrgs |-> c.GitHub.ExcludeOrgs,
     PreserveOrgStructure |-> c.GitHub.PreserveOrgStructure,
     UseSpecificUser |-> c.GitHub.UseSpecificUser]

(***************************************************************************)
(* The destination and its client (package gitea)                          *)
(*                                                                         *)
(* dest = [orgs, mirrors]: the organizations that exist and the            *)
(* repositories that exist, as <<container name, repository name>>.        *)
(* A step is given the set S of fault points at which a request fails      *)
(* although the peer's state would answer it; each client operation        *)
(* returns, besides its results, the requests it sent (calls) and the      *)
(* fault points at which a failure would have changed its answer (pts).    *)
(***************************************************************************)
NoError == "nil"

UserName == "me"

\* the destination's numeric id of a user or organization
IdOf(owner) ==
    CASE owner = UserName -> 1
      [] owner = "dorg"   -> 2
      [] owner = "github" -> 3
      [] owner = "stars"  -> 4
      [] owner = "acme"   -> 5
      [] owner = "beta"   -> 6
      [] OTHER            -> 7

Owners == {UserName, "dorg", "github", "stars", "acme", "beta"}

OwnerOf(id) == CHOOSE o \in Owners : IdOf(o) = id

Pt(kind, i) == <<kind, i>>

MutatingKinds == {"createOrg", "migrate", "star", "createIssue", "createLabel",
                  "attachLabel"}

Mutating(calls0) ==
    {calls0[i] : i \in {j \in 1..Len(calls0) :
                           calls0[j].to = "gitea" /\ calls0[j].kind \in MutatingKinds}}

GetUser(S) ==
    [err |-> Pt("user", 0) \in S,
     target |-> [ID |-> IdOf(UserName), Name |-> UserName, Type |-> "user"],
     calls |-> <<Req("gitea", "GET", "user", "", <<>>, "")>>,
     pts |-> {Pt("user", 0)}]

GetOrganization(d, orgName, S, pt) ==
    [ok |-> orgName \in d.orgs /\ pt \notin S,
     target |-> [ID |-> IdOf(orgName), Name |-> orgName, Type |-> "organization"],
     calls |-> <<Req("gitea", "GET", "org", orgName, <<>>, "")>>,
     pts |-> IF orgName \in d.orgs THEN {pt} ELSE {}]

\* the POST of client.go:172 answers 201 and creates the organization, or
\* 422 when it exists; at fault point orgPost it fails, at orgPost422 it
\* answers 422 for a name that is not an organization
CreateOrganization(d, orgName, dryRun, S) ==
    LET exists == orgName \in d.orgs
        get == Req("gitea", "GET", "org", orgName, <<>>, "")
        post == Req("gitea", "POST", "createOrg", orgName, <<>>, "")
        found == exists /\ Pt("orgGet", 0) \notin S
        failed == Pt("orgPost", 0) \in S
        created == ~exists /\ ~failed /\ Pt("orgPost422", 0) \notin S
    IN  IF dryRun THEN [err |-> FALSE, dest |-> d, calls |-> <<>>, pts |-> {}]
        ELSE IF found
        THEN [err |-> FALSE, dest |-> d, calls |-> <<get>>, pts |-> {Pt("orgGet", 0)}]
        ELSE [err |-> failed,
              dest |-> IF created THEN [d EXCEPT !.orgs = @ \cup {orgName}] ELSE d,
              calls |-> <<get, post>>,
              pts |-> (IF exists THEN {Pt("orgGet", 0)} ELSE {})
                      \cup {Pt("orgPost", 0)}
                      \cup (IF ~exists /\ ~failed THEN {Pt("orgPost422", 0)} ELSE {})]

\* an existence check that never finds the repository
IsRepositoryMirroredNever(d, repoName, target, S) ==
    [mirrored |-> FALSE, err |-> NoError,
     calls |-> <<Req("gitea", "GET", "repo", target.Name, repoName, "")>>,
     pts |-> {}]

IsRepositoryMirrored(d, repoName, target, S) ==
    LET exists == <<target.Name, repoName>> \in d.mirrors
    IN  [mirrored |-> exists /\ Pt("exist", 0) \notin S,
         err |-> NoError,
         calls |-> <<Req("gitea", "GET", "repo", target.Name, repoName, "")>>,
         pts |-> IF exists THEN {Pt("exist", 0)} ELSE {}]

\* the destination creates the mirror under the owner with id UID unless a
\* repository of that name exists there (409)
MirrorRepository(d, repo, target, githubToken, S) ==
    LET owner == OwnerOf(target.ID)
        present == <<owner, repo.Name>> \in d.mirrors
        created == ~present /\ Pt("migrate", 0) \notin S
    IN  [err |-> ~created,
         dest |-> IF created THEN [d EXCEPT !.mirrors = @ \cup {<<owner, repo.Name>>}]
                  ELSE d,
         calls |-> <<Req("gitea", "POST", "migrate", owner, repo.Name, githubToken)>>,
         pts |-> IF present THEN {} ELSE {Pt("migrate", 0)}]

\* a StarRepository without the dry-run return of client.go:215-218
StarRepositoryAlways(d, repoName, target, dryRun, S) ==
    LET present == <<target.Name, repoName>> \in d.mirrors
    IN  [err |-> ~(present /\ Pt("star", 0) \notin S),
         calls |-> <<Req("gitea", "PUT", "star", target.Name, repoName, "")>>,
         pts |-> IF present THEN {Pt("star", 0)} ELSE {}]

StarRepository(d, repoName, target, dryRun, S) ==
    LET present == <<target.Name, repoName>> \in d.mirrors
    IN  IF dryRun THEN [err |-> FALSE, calls |-> <<>>, pts |-> {}]
        ELSE [err |-> ~(present /\ Pt("star", 0) \notin S),
              calls |-> <<Req("gitea", "PUT", "star", target.Name, repoName, "")>>,
              pts |-> IF present THEN {Pt("star", 0)} ELSE {}]

\* addLabelToIssue: both requests are sent whatever the first answers
addLabelToIssue(repo, target, i, S) ==
    [calls |-> <<Req("gitea", "POST", "createLabel", target.Name, repo.Name, ""),
                 IssueReq("attachLabel", target.Name, repo.Name, i)>>,
     pts |-> {Pt("label", i), Pt("attach", i)}]

RECURSIVE labelLoop(_, _, _, _, _)
labelLoop(labels, repo, target, i, S) ==
    IF labels = <<>> THEN [calls |-> <<>>, pts |-> {}]
    ELSE LET a == addLabelToIssue(repo, target, i, S)
             rest == labelLoop(Tail(labels), repo, target, i, S)
         IN  [calls |-> a.calls \o rest.calls, pts |-> a.pts \cup rest.pts]

createGiteaIssue(d, issue, repo, target, S) ==
    LET present == <<target.Name, repo.Name>> \in d.mirrors
        created == present /\ Pt("issue", issue.number) \notin S
        l == labelLoop(issue.labels, repo, target, issue.number, S)
        post == IssueReq("createIssue", target.Name, repo.Name, issue.number)
    IN  IF ~created
        THEN [err |-> TRUE, calls |-> <<post>>,
              pts |-> IF present THEN {Pt("issue", issue.number)} ELSE {}]
        ELSE [err |-> FALSE, calls |-> <<post>> \o l.calls,
              pts |-> {Pt("issue", issue.number)} \cup l.pts]

\* an issue loop that ends at the first issue that is not created
RECURSIVE issueLoopStopsOnError(_, _, _, _, _)
issueLoopStopsOnError(d, issues, repo, target, S) ==
    IF issues = <<>> THEN [calls |-> <<>>, pts |-> {}, errs |-> <<>>]
    ELSE LET c == createGiteaIssue(d, Head(issues), repo, target, S)
             rest == issueLoopStopsOnError(d, Tail(issues), repo, target, S)
         IN  IF c.err THEN [calls |-> c.calls, pts |-> c.pts, errs |-> <<c.err>>]
             ELSE [calls |-> c.calls \o rest.calls, pts |-> c.pts \cup rest.pts,
                   errs |-> <<c.err>> \o rest.errs]

RECURSIVE issueLoop(_, _, _, _, _)
issueLoop(d, issues, repo, target, S) ==
    IF issues = <<>> THEN [calls |-> <<>>, pts |-> {}, errs |-> <<>>]
    ELSE LET c == createGiteaIssue(d, Head(issues), repo, target, S)
             rest == issueLoop(d, Tail(issues), repo, target, S)
         IN  [calls |-> c.calls \o rest.calls, pts |-> c.pts \cup rest.pts,
              errs |-> <<c.err>> \o rest.errs]

\* the loop of fetchGitHubIssues from the request for page on: the request
\* for page p fails when Pt("fetch", p - 1) is in S
RECURSIVE issuePages(_, _, _, _)
issuePages(items, page, repo, S) ==
    LET req == Req("github", "GET", "issues", repo.Owner, repo.Name, "")
        pt == Pt("fetch", page - 1)
        issues == SubSeq(items, (page - 1) * PageSize + 1,
                         Min(Len(items), page * PageSize))
        rest == issuePages(items, page + 1, repo, S)
    IN  IF pt \in S
        THEN [err |-> TRUE, issues |-> <<>>, calls |-> <<req>>, pts |-> {pt}]
        ELSE IF page >= NumPages(items)
        THEN [err |-> FALSE, issues |-> issues, calls |-> <<req>>, pts |-> {pt}]
        ELSE [err |-> rest.err,
              issues |-> IF rest.err THEN <<>> ELSE issues \o rest.issues,
              calls |-> <<req>> \o rest.calls, pts |-> {pt} \cup rest.pts]

\* src.issues[repo.URL]: the issues the source lists for the repository
fetchGitHubIssues(src, repo, S) == issuePages(src.issues[repo.URL], 1, repo, S)

MirrorIssues(d, src, repo, target, githubToken, dryRun, S) ==
    LET f == fetchGitHubIssues(src, repo, S)
        l == issueLoop(d, f.issues, repo, target, S)
    IN  IF ~repo.HasIssues THEN [err |-> FALSE, calls |-> <<>>, pts |-> {}]
        ELSE IF dryRun THEN [err |-> FALSE, calls |-> <<>>, pts |-> {}]
        ELSE IF f.err THEN [err |-> TRUE, calls |-> f.calls, pts |-> f.pts]
        ELSE [err |-> FALSE, calls |-> f.calls \o l.calls, pts |-> f.pts \cup l.pts]

(***************************************************************************)
(* main.getDefaultTarget and main.mirrorRepository                         *)
(***************************************************************************)
\* a getDefaultTarget that uses the organization without looking at the
\* error of its lookup (main.go:245)
getDefaultTargetUnchecked(c, d, user, S) ==
    LET g == GetOrganization(d, c.Gitea.Organization, S, Pt("dorg", 0))
    IN  IF c.Gitea.Organization # ""
        THEN [target |-> g.target,
              looked |-> TRUE, found |-> g.ok, calls |-> g.calls, pts |-> g.pts]
        ELSE [target |-> user, looked |-> FALSE, found |-> FALSE, calls |-> <<>>,
              pts |-> {}]

getDefaultTarget(c, d, user, S) ==
    LET g == GetOrganization(d, c.Gitea.Organization, S, Pt("dorg", 0))
    IN  IF c.Gitea.Organization # ""
        THEN [target |-> IF g.ok THEN g.target ELSE user,
              looked |-> TRUE, found |-> g.ok, calls |-> g.calls, pts |-> g.pts]
        ELSE [target |-> user, looked |-> FALSE, found |-> FALSE, calls |-> <<>>,
              pts |-> {}]

\* a resolveTarget whose starred rule yields to a configured default
\* organization
resolveTargetDefaultFirst(repo, c, d, user, targets, S) ==
    LET s == GetOrganization(d, c.Gitea.StarredReposOrg, S, Pt("sorg", 0))
        g == GetOrganization(d, c.Gitea.Organization, S, Pt("dorg", 0))
        dflt == IF c.Gitea.Organization # ""
                THEN [target |-> IF g.ok THEN g.target ELSE user,
                      looked |-> TRUE, found |-> g.ok, calls |-> g.calls,
                      pts |-> g.pts]
                ELSE [target |-> user, looked |-> FALSE, found |-> FALSE,
                      calls |-> <<>>, pts |-> {}]
        viaDefault(rule, before, pts) ==
            [target |-> dflt.target, rule |-> rule, starredOrgFound |-> FALSE,
             default |-> TRUE, defaultLooked |-> dflt.looked,
             defaultFound |-> dflt.found,
             calls |-> before \o dflt.calls, pts |-> pts \cup dflt.pts]
    IN  IF repo.Starred /\ c.Gitea.StarredReposOrg # "" /\ c.Gitea.Organization = ""
        THEN IF s.ok
             THEN [target |-> s.target, rule |-> "starred", starredOrgFound |-> TRUE,
                   default |-> FALSE, defaultLooked |-> FALSE, defaultFound |-> FALSE,
                   calls |-> s.calls, pts |-> s.pts]
             ELSE viaDefault("starred", s.calls, s.pts)
        ELSE IF c.GitHub.PreserveOrgStructure /\ repo.Organization # ""
        THEN IF repo.Organization \in DOMAIN targets
             THEN [target |-> targets[repo.Organization], rule |-> "organization",
                   starredOrgFound |-> FALSE,
                   default |-> FALSE, defaultLooked |-> FALSE, defaultFound |-> FALSE,
                   calls |-> <<>>, pts |-> {}]
             ELSE viaDefault("organization", <<>>, {})
        ELSE viaDefault("default", <<>>, {})

\* main.go:159-183: the target, the rule that gave it and the lookups made
\* a resolveTarget that sends every repository of an organization to the
\* default target
resolveTargetIgnoresMap(repo, c, d, user, targets, S) ==
    LET s == GetOrganization(d, c.Gitea.StarredReposOrg, S, Pt("sorg", 0))
        dflt == getDefaultTarget(c, d, user, S)
        viaDefault(rule, before, pts) ==
            [target |-> dflt.target, rule |-> rule, starredOrgFound |-> FALSE,
             default |-> TRUE, defaultLooked |-> dflt.looked,
             defaultFound |-> dflt.found,
             calls |-> before \o dflt.calls, pts |-> pts \cup dflt.pts]
    IN  IF repo.Starred /\ c.Gitea.StarredReposOrg # ""
        THEN IF s.ok
             THEN [target |-> s.target, rule |-> "starred", starredOrgFound |-> TRUE,
                   default |-> FALSE, defaultLooked |-> FALSE, defaultFound |-> FALSE,
                   calls |-> s.calls, pts |-> s.pts]
             ELSE viaDefault("starred", s.calls, s.pts)
        ELSE IF c.GitHub.PreserveOrgStructure /\ repo.Organization # ""
        THEN viaDefault("organization", <<>>, {})
        ELSE viaDefault("default", <<>>, {})

resolveTarget(repo, c, d, user, targets, S) ==
    LET s == GetOrganization(d, c.Gitea.StarredReposOrg, S, Pt("sorg", 0))
        dflt == getDefaultTarget(c, d, user, S)
        viaDefault(rule, before, pts) ==
            [target |-> dflt.target, rule |-> rule, starredOrgFound |-> FALSE,
             default |-> TRUE, defaultLooked |-> dflt.looked,
             defaultFound |-> dflt.found,
             calls |-> before \o dflt.calls, pts |-> pts \cup dflt.pts]
    IN  IF repo.Starred /\ c.Gitea.StarredReposOrg # ""
        THEN IF s.ok
             THEN [target |-> s.target, rule |-> "starred", starredOrgFound |-> TRUE,
                   default |-> FALSE, defaultLooked |-> FALSE, defaultFound |-> FALSE,
                   calls |-> s.calls, pts |-> s.pts]
             ELSE viaDefault("starred", s.calls, s.pts)
        ELSE IF c.GitHub.PreserveOrgStructure /\ repo.Organization # ""
        THEN IF repo.Organization \in DOMAIN targets
             THEN [target |-> targets[repo.Organization], rule |-> "organization",
                   starredOrgFound |-> FALSE,
                   default |-> FALSE, defaultLooked |-> FALSE, defaultFound |-> FALSE,
                   calls |-> <<>>, pts |-> {}]
             ELSE viaDefault("organization", <<>>, {})
        ELSE viaDefault("default", <<>>, {})

\* a shouldMirrorIssues without the starred exception
shouldMirrorIssuesOfAll(repo, c) ==
    c.GitHub.MirrorIssues

\* main.go:232
shouldMirrorIssues(repo, c) ==
    c.GitHub.MirrorIssues /\ ~(repo.Starred /\ c.GitHub.SkipStarredIssues)

\* an already-mirrored branch that stars whatever the repository is
alreadyMirroredStarsAll(base, repo, c, d, S) ==
    LET star == StarRepository(d, repo.Name, base.target, c.DryRun, S)
    IN  [base EXCEPT !.calls = @ \o star.calls, !.pts = @ \cup star.pts,
                     !.starFailed = star.err,
                     !.err = IF star.err THEN "star" ELSE NoError]

\* main.go:193-196 and 201-203: the repository is already mirrored
alreadyMirrored(base, repo, c, d, S) ==
    LET star == StarRepository(d, repo.Name, base.target, c.DryRun, S)
    IN  IF repo.Starred
        THEN [base EXCEPT !.calls = @ \o star.calls, !.pts = @ \cup star.pts,
                          !.starFailed = star.err,
                          !.err = IF star.err THEN "star" ELSE NoError]
        ELSE base

\* main.go:221-239: after the mirror was created in dest m
afterMirror(base, repo, c, m, src, S) ==
    LET star == StarRepository(m, repo.Name, base.target, c.DryRun, S)
        iss == MirrorIssues(m, src, repo, base.target, c.GitHub.Token, c.DryRun, S)
        starred == IF repo.Starred
                   THEN [base EXCEPT !.calls = @ \o star.calls,
                                     !.pts = @ \cup star.pts,
                                     !.starFailed = star.err]
                   ELSE base
    IN  IF shouldMirrorIssues(repo, c) /\ ~c.DryRun
        THEN [starred EXCEPT !.calls = @ \o iss.calls, !.pts = @ \cup iss.pts,
                             !.issuesStarted = TRUE, !.issuesFailed = iss.err]
        ELSE starred

\* main.go:185-240 on the resolved target t
mirrorAt(repo, c, d, src, t, S) ==
    LET chk == IsRepositoryMirrored(d, repo.Name, t.target, S)
        isAlreadyMirrored == chk.mirrored
        mig == MirrorRepository(d, repo, t.target, c.GitHub.Token, S)
        base == [repo |-> repo, target |-> t.target, rule |-> t.rule,
                 starredOrgFound |-> t.starredOrgFound, default |-> t.default,
                 defaultLooked |-> t.defaultLooked, defaultFound |-> t.defaultFound,
                 already |-> isAlreadyMirrored, err |-> NoError, dest |-> d,
                 calls |-> t.calls \o chk.calls, pts |-> t.pts \cup chk.pts,
                 create |-> "none", starFailed |-> FALSE,
                 issuesStarted |-> FALSE, issuesFailed |-> FALSE]
    IN  IF chk.err # NoError THEN [base EXCEPT !.err = chk.err]
        ELSE IF isAlreadyMirrored THEN alreadyMirrored(base, repo, c, d, S)
        ELSE IF c.DryRun THEN base
        ELSE IF mig.err
        THEN [base EXCEPT !.calls = @ \o mig.calls, !.pts = @ \cup mig.pts,
                          !.create = "failed", !.err = "migrate"]
        ELSE afterMirror([base EXCEPT !.calls = @ \o mig.calls,
                                      !.pts = @ \cup mig.pts,
                                      !.create = "ok", !.dest = mig.dest],
                         repo, c, mig.dest, src, S)

mirrorRepository(repo, c, d, src, user, targets, S) ==
    mirrorAt(repo, c, d, src, resolveTarget(repo, c, d, user, targets, S), S)

(***************************************************************************)
(* The environments, source accounts and destinations the runs start from  *)
(***************************************************************************)
Flag == {"", "true"}

EnvDefault ==
    [GITHUB_USERNAME |-> UserName, GITEA_URL |-> "url", GITEA_TOKEN |-> "gt",
     GITHUB_TOKEN |-> "tok", MIRROR_PRIVATE_REPOSITORIES |-> "",
     MIRROR_ISSUES |-> "", MIRROR_STARRED |-> "", MIRROR_ORGANIZATIONS |-> "",
     SINGLE_REPO |-> <<>>, SKIP_FORKS |-> "", USE_SPECIFIC_USER |-> "",
     INCLUDE_ORGS |-> <<>>, EXCLUDE_ORGS |-> <<>>, PRESERVE_ORG_STRUCTURE |-> "",
     SKIP_STARRED_ISSUES |-> "", GITEA_ORGANIZATION |-> "",
     GITEA_STARRED_ORGANIZATION |-> "", DRY_RUN |-> "", INCLUDE |-> <<>>,
     EXCLUDE |-> <<>>]

\* environments that lack a mandatory setting
BadEnvs ==
    {[EnvDefault EXCEPT !.GITHUB_USERNAME = ""], [EnvDefault EXCEPT !.GITEA_URL = ""],
     [EnvDefault EXCEPT !.GITEA_TOKEN = ""],
     [EnvDefault EXCEPT !.GITHUB_TOKEN = "", !.MIRROR_STARRED = "true"]}

\* the settings the run after collection depends on, in every combination
\* that differs in effect: a starred organization and the skipping of
\* starred issues are set only with starred mirroring, structure
\* preservation only with organization mirroring
RunEnvs ==
    {[EnvDefault EXCEPT !.DRY_RUN = dry, !.GITEA_ORGANIZATION = org,
                        !.GITEA_STARRED_ORGANIZATION = sorg,
                        !.MIRROR_STARRED = starred, !.MIRROR_ORGANIZATIONS = orgs,
                        !.PRESERVE_ORG_STRUCTURE = preserve,
                        !.MIRROR_ISSUES = issues, !.SKIP_STARRED_ISSUES = skip] :
        dry \in Flag, org \in {"", "dorg"}, sorg \in {"", "stars"},
        starred \in Flag, orgs \in Flag, preserve \in Flag, issues \in Flag,
        skip \in Flag}

\* a single repository is named: by two tokens that are no owner/name, by
\* owner/name, by its URL
SingleTokens ==
    {<<"a">>, <<"x", "/", "a", "/", "b">>, <<"x", "/", "a">>,
     <<UrlPrefix, "x", "/", "a", GitSuffix>>}

SingleEnvs ==
    {[EnvDefault EXCEPT !.SINGLE_REPO = tok, !.GITEA_ORGANIZATION = org,
                        !.DRY_RUN = dry] :
        tok \in SingleTokens, org \in {"", "dorg"}, dry \in Flag}

\* private mirroring is asked for, with and without a source token
PrivateEnvs ==
    {[EnvDefault EXCEPT !.MIRROR_PRIVATE_REPOSITORIES = private,
                        !.GITHUB_TOKEN = tok, !.DRY_RUN = dry] :
        private \in {"true", "1"}, tok \in {"", "tok"}, dry \in Flag}

Envs ==
    BadEnvs \cup SingleEnvs \cup PrivateEnvs \cup
    {e \in RunEnvs :
        /\ e.GITEA_STARRED_ORGANIZATION # "" => e.MIRROR_STARRED = "true"
        /\ e.SKIP_STARRED_ISSUES # "" => e.MIRROR_STARRED = "true"
                                         /\ e.MIRROR_ISSUES = "true"
        /\ e.PRESERVE_ORG_STRUCTURE # "" => e.MIRROR_ORGANIZATIONS = "true"}

Raw(name, url, owner, hasIssues, private, fork) ==
    [name |-> name, url |-> url, owner |-> owner, hasIssues |-> hasIssues,
     private |-> private, fork |-> fork]

rA == Raw(<<"a">>, "gh/me/a", "me", TRUE, FALSE, FALSE)
rX == Raw(<<"a">>, "gh/x/a", "x", TRUE, FALSE, FALSE)
rB == Raw(<<"b">>, "gh/acme/b", "acme", FALSE, FALSE, FALSE)

Listing(items) == [items |-> items, failAt |-> 0]

Issues == [i \in 1..MaxIssues |-> [number |-> i, labels |-> <<"bug">>]]

\* the account me: owns a, has starred x/a and its own a, belongs to acme
World ==
    [public |-> Listing(<<rA>>), private |-> Listing(<<>>),
     starred |-> [u \in {"", UserName} |-> Listing(<<rX, rA>>)],
     orgs |-> [u \in {"", UserName} |-> Listing(<<"acme">>)],
     orgPublic |-> [o \in {"acme"} |-> Listing(<<rB>>)],
     orgSearch |-> [o \in {"acme"} |-> Listing(<<rB>>)],
     all |-> {rA, rX, rB}, getFails |-> FALSE,
     issues |-> [u \in {"gh/me/a", "gh/x/a", "gh/acme/b"} |->
                   IF u = "gh/acme/b" THEN <<>> ELSE Issues]]

AllOrgs == {"dorg", "github", "stars", "acme"}

DestInits ==
    {[orgs |-> {}, mirrors |-> {}],
     [orgs |-> AllOrgs, mirrors |-> {}],
     [orgs |-> AllOrgs,
      mirrors |-> {<<UserName, <<"a">>>>, <<"github", <<"a">>>>, <<"stars", <<"a">>>>}]}

(***************************************************************************)
(* Fault injection                                                         *)
(***************************************************************************)
FaultKinds == {"user", "orgGet", "orgPost", "orgPost422", "porg", "sorg", "dorg",
               "exist", "migrate", "star", "fetch", "srcPublic", "srcStarred",
               "srcOrgs", "srcOrg", "srcGet"}

FaultPoints ==
    {Pt(k, 0) : k \in FaultKinds}
    \cup {Pt(k, i) : k \in {"issue", "label", "attach"}, i \in 1..MaxIssues}

\* the answers a lookup gives decide where a repository goes
ReadKinds == {"orgGet", "porg", "sorg", "dorg", "exist"}

\* the sets of at most k fault points
RECURSIVE UpTo(_)
UpTo(k) == IF k = 0 THEN {{}}
           ELSE LET less == UpTo(k - 1)
                IN  less \cup {S \cup {p} : S \in less, p \in FaultPoints}

FaultSets == [k \in 0..MaxFaults |-> UpTo(k)]

Budget == FaultSets[MaxFaults - faults]

ReadFault(S) == \E p \in S : p[1] \in ReadKinds

\* the source account as the collector sees it when the requests at S fail
WithFaults(src, S) ==
    LET fail(l, k) == IF Pt(k, 0) \in S THEN [l EXCEPT !.failAt = 1] ELSE l
    IN  [src EXCEPT
           !.getFails = Pt("srcGet", 0) \in S,
           !.public = fail(@, "srcPublic"),
           !.starred = [u \in DOMAIN @ |-> fail(@[u], "srcStarred")],
           !.orgs = [u \in DOMAIN @ |-> fail(@[u], "srcOrgs")],
           !.orgPublic = [o \in DOMAIN @ |-> fail(@[o], "srcOrg")],
           !.orgSearch = [o \in DOMAIN @ |-> fail(@[o], "srcOrg")]]

SrcPts(reqs) ==
    {Pt(CASE reqs[i].kind = "list-owned" -> "srcPublic"
          [] reqs[i].kind = "list-starred" -> "srcStarred"
          [] reqs[i].kind = "list-orgs" -> "srcOrgs"
          [] reqs[i].kind = "list-org" -> "srcOrg"
          [] reqs[i].kind = "get-repo" -> "srcGet"
          [] OTHER -> "none", 0) : i \in 1..Len(reqs)}

(***************************************************************************)
(* State                                                                   *)
(***************************************************************************)
NoTarget == [ID |-> 0, Name |-> "", Type |-> ""]

NoRepo == [Name |-> <<>>, URL |-> "", Private |-> FALSE, Fork |-> FALSE,
           Owner |-> "", HasIssues |-> FALSE, Organization |-> "",
           Starred |-> FALSE]

NoLast ==
    [step |-> "none", repo |-> NoRepo, target |-> NoTarget, rule |-> "",
     starredOrgFound |-> FALSE, default |-> FALSE, defaultLooked |-> FALSE,
     defaultFound |-> FALSE, already |-> FALSE, err |-> NoError,
     create |-> "none", starFailed |-> FALSE, issuesStarted |-> FALSE,
     issuesFailed |-> FALSE, S |-> {}]

NoIO == [in |-> <<>>, out |-> <<>>]

\* of this run: whether a lookup failed, whether an organization was created,
\* the repositories whose mirror was created, whether a request was sent to
\* the source or the destination; the same of the previous run
NoHist ==
    [readFault |-> FALSE, orgCreated |-> FALSE, ok |-> {}, sent |-> FALSE,
     prevReadFault |-> FALSE, prevRepos |-> <<>>, prevOk |-> {}]

Init ==
    /\ env \in Envs
    /\ github = World
    /\ dest \in DestInits
    /\ pc = "load"
    /\ cfg = NoConfig
    /\ filteredRepos = <<>>
    /\ giteaUser = NoTarget
    /\ uniqueOrgs = {}
    /\ orgTargets = <<>>
    /\ idx = 1
    /\ exitStatus = 0
    /\ run = 1
    /\ faults = 0
    /\ calls = <<>>
    /\ mutations = {}
    /\ last = NoLast
    /\ processed = <<>>
    /\ hist = NoHist
    /\ io = NoIO

(***************************************************************************)
(* main(), step by step                                                    *)
(***************************************************************************)
\* every step but mirrorRepository leaves no record in last
Step(newCalls, S) ==
    /\ calls' = newCalls
    /\ mutations' = mutations \cup Mutating(newCalls)
    /\ faults' = faults + Cardinality(S)
    /\ last' = NoLast

\* main.go:17-20
LoadConfig ==
    /\ pc = "load"
    /\ cfg' = Load(env)
    /\ pc' = IF cfg'.err THEN "fatal" ELSE "prepOrg"
    /\ exitStatus' = IF cfg'.err THEN 1 ELSE 0
    /\ Step(<<>>, {})
    /\ UNCHANGED <<io, env, github, dest, filteredRepos, giteaUser, uniqueOrgs,
                   orgTargets, idx, run, processed, hist>>

\* main.go:30-35 with org = cfg.Gitea.Organization, 37-42 with the starred one
PrepareOrganization(wanted, orgName, next) ==
    \E S \in Budget :
        LET r == CreateOrganization(dest, orgName, cfg.DryRun, S)
        IN  IF wanted
            THEN /\ S \subseteq r.pts
                 /\ dest' = r.dest
                 /\ hist' = [hist EXCEPT
                               !.readFault = @ \/ ReadFault(S),
                               !.orgCreated = @ \/ r.dest # dest,
                               !.sent = @ \/ r.calls # <<>>]
                 /\ Step(r.calls, S)
                 /\ pc' = next
            ELSE /\ S = {}
                 /\ UNCHANGED <<dest, hist>>
                 /\ Step(<<>>, S)
                 /\ pc' = next

PrepOrg ==
    /\ pc = "prepOrg"
    /\ PrepareOrganization(cfg.Gitea.Organization # "", cfg.Gitea.Organization,
                           "prepStarred")
    /\ UNCHANGED <<io, env, github, cfg, filteredRepos, giteaUser, uniqueOrgs,
                   orgTargets, idx, exitStatus, run, processed>>

PrepStarredOrg ==
    /\ pc = "prepStarred"
    /\ PrepareOrganization(cfg.GitHub.MirrorStarred /\ cfg.Gitea.StarredReposOrg # "",
                           cfg.Gitea.StarredReposOrg, "collect")
    /\ UNCHANGED <<io, env, github, cfg, filteredRepos, giteaUser, uniqueOrgs,
                   orgTargets, idx, exitStatus, run, processed>>

\* main.go:44-66
Collect ==
    /\ pc = "collect"
    /\ \E S \in Budget :
          LET g == GetRepositories(WithFaults(github, S), cfg.GitHub.Token,
                                   FetchOptions(cfg))
          IN  /\ S \subseteq SrcPts(g.reqs)
              /\ filteredRepos' = IF g.err THEN <<>>
                                  ELSE filterRepositories(g.repos, cfg.Include,
                                                          cfg.Exclude)
              /\ pc' = IF g.err THEN "fatal" ELSE "getUser"
              /\ exitStatus' = IF g.err THEN 1 ELSE 0
              /\ hist' = [hist EXCEPT !.sent = @ \/ g.reqs # <<>>]
              /\ Step(g.reqs, S)
    /\ UNCHANGED <<io, env, github, dest, cfg, giteaUser, uniqueOrgs, orgTargets, idx,
                   run, processed>>

\* main.go:68-83
GetUserStep ==
    /\ pc = "getUser"
    /\ \E S \in Budget :
          LET u == GetUser(S)
              orgs == IF cfg.GitHub.PreserveOrgStructure
                      THEN {filteredRepos[i].Organization :
                              i \in 1..Len(filteredRepos)} \ {""}
                      ELSE {}
          IN  /\ S \subseteq u.pts
              /\ giteaUser' = IF u.err THEN NoTarget ELSE u.target
              /\ uniqueOrgs' = IF u.err THEN {} ELSE orgs
              /\ pc' = IF u.err THEN "fatal"
                       ELSE IF orgs = {} THEN "mirror" ELSE "preResolve"
              /\ exitStatus' = IF u.err THEN 1 ELSE 0
              /\ hist' = [hist EXCEPT !.sent = @ \/ u.calls # <<>>]
              /\ Step(u.calls, S)
    /\ orgTargets' = <<>>
    /\ idx' = 1
    /\ UNCHANGED <<io, env, github, dest, cfg, filteredRepos, run, processed>>

\* main.go:86-101, one iteration; Go ranges over the map in any order
PreResolve ==
    /\ pc = "preResolve"
    /\ \E orgName \in uniqueOrgs, S \in Budget :
          LET c == CreateOrganization(dest, orgName, cfg.DryRun, S)
              g == GetOrganization(c.dest, orgName, S, Pt("porg", 0))
              got == ~c.err /\ g.ok
          IN  /\ S \subseteq c.pts \cup (IF c.err THEN {} ELSE g.pts)
              /\ dest' = c.dest
              /\ orgTargets' = IF got THEN (orgName :> g.target) @@ orgTargets
                                ELSE orgTargets
              /\ uniqueOrgs' = uniqueOrgs \ {orgName}
              /\ pc' = IF uniqueOrgs' = {} THEN "mirror" ELSE "preResolve"
              /\ hist' = [hist EXCEPT
                            !.readFault = @ \/ ReadFault(S),
                            !.orgCreated = @ \/ c.dest # dest,
                            !.sent = TRUE]
              /\ Step(c.calls \o (IF c.err THEN <<>> ELSE g.calls), S)
    /\ UNCHANGED <<io, env, github, cfg, filteredRepos, giteaUser, idx, exitStatus, run,
                   processed>>

\* a loop that ends the run at the first repository that fails
MainLoopFatal(r) ==
    /\ idx' = idx + 1
    /\ pc' = IF r.err # NoError THEN "fatal" ELSE "mirror"
    /\ exitStatus' = IF r.err # NoError THEN 1 ELSE exitStatus
    /\ processed' = Append(processed,
                           [repo |-> r.repo, err |-> r.err, create |-> r.create,
                            target |-> r.target])

\* main.go:105-109, one iteration: the error is logged and the loop goes on
MainLoop(r) ==
    /\ idx' = idx + 1
    /\ pc' = "mirror"
    /\ exitStatus' = exitStatus
    /\ processed' = Append(processed,
                           [repo |-> r.repo, err |-> r.err, create |-> r.create,
                            target |-> r.target])

MirrorStep ==
    /\ pc = "mirror"
    /\ idx <= Len(filteredRepos)
    /\ \E S \in Budget :
          LET r == mirrorRepository(filteredRepos[idx], cfg, dest, github, giteaUser,
                                    orgTargets, S)
          IN  /\ S \subseteq r.pts
              /\ dest' = r.dest
              /\ calls' = r.calls
              /\ mutations' = mutations \cup Mutating(r.calls)
              /\ faults' = faults + Cardinality(S)
              /\ last' = [step |-> "mirror", repo |-> r.repo, target |-> r.target,
                          rule |-> r.rule, starredOrgFound |-> r.starredOrgFound,
                          default |-> r.default, defaultLooked |-> r.defaultLooked,
                          defaultFound |-> r.defaultFound, already |-> r.already,
                          err |-> r.err, create |-> r.create,
                          starFailed |-> r.starFailed,
                          issuesStarted |-> r.issuesStarted,
                          issuesFailed |-> r.issuesFailed, S |-> S]
              /\ hist' = [hist EXCEPT
                            !.readFault = @ \/ ReadFault(S),
                            !.ok = IF r.create = "ok" THEN @ \cup {r.repo} ELSE @,
                            !.sent = @ \/ r.calls # <<>>]
              /\ MainLoop(r)
    /\ UNCHANGED <<io, env, github, cfg, filteredRepos, giteaUser, uniqueOrgs,
                   orgTargets, run>>

\* main.go:111
Complete ==
    /\ pc = "mirror"
    /\ idx > Len(filteredRepos)
    /\ pc' = "done"
    /\ Step(<<>>, {})
    /\ UNCHANGED <<io, env, github, dest, cfg, filteredRepos, giteaUser, uniqueOrgs,
                   orgTargets, idx, exitStatus, run, processed, hist>>

\* docker-entrypoint.sh:9-20: the binary is started again after a run that
\* exited with status 0 (set -e ends the script otherwise)
Restart ==
    /\ pc = "done"
    /\ exitStatus = 0
    /\ run < MaxRuns
    /\ run' = run + 1
    /\ pc' = "load"
    /\ cfg' = NoConfig
    /\ filteredRepos' = <<>>
    /\ giteaUser' = NoTarget
    /\ uniqueOrgs' = {}
    /\ orgTargets' = <<>>
    /\ idx' = 1
    /\ faults' = faults
    /\ calls' = <<>>
    /\ mutations' = {}
    /\ last' = NoLast
    /\ processed' = <<>>
    /\ hist' = [readFault |-> FALSE, orgCreated |-> FALSE, ok |-> {},
                sent |-> FALSE,
                prevReadFault |-> hist.readFault, prevRepos |-> filteredRepos,
                prevOk |-> hist.ok]
    /\ UNCHANGED <<io, env, github, dest, exitStatus>>

Next ==
    \/ LoadConfig
    \/ PrepOrg
    \/ PrepStarredOrg
    \/ Collect
    \/ GetUserStep
    \/ PreResolve
    \/ MirrorStep
    \/ Complete
    \/ Restart

Spec == Init /\ [][Next]_vars

(***************************************************************************)
(* GetRepositories and the filter stage on their own (main.go:44-66): the  *)
(* source account lists, in its four listings, up to MaxListed             *)
(* repositories: its public ones (a, the fork b), its private one (p), the *)
(* ones it starred (its own a and p, x/a, acme/b), the one of its          *)
(* organization acme (b). A repository is one record whatever listing      *)
(* shows it, and a listing may show it twice.                              *)
(***************************************************************************)
\* repositories listed by the source account, over all its listings
MaxListed == 3

rP == Raw(<<"p">>, "gh/me/p", "me", TRUE, TRUE, FALSE)
rF == Raw(<<"b">>, "gh/me/b", "me", FALSE, FALSE, TRUE)

\* a listed repository: the listing that shows it and the record
Listed ==
    {[source |-> "public", raw |-> r] : r \in {rA, rF}}
    \cup {[source |-> "private", raw |-> r] : r \in {rP}}
    \cup {[source |-> "starred", raw |-> r] : r \in {rA, rX, rP, rB}}
    \cup {[source |-> "org", raw |-> r] : r \in {rB}}

RECURSIVE SeqsUpTo(_, _)
SeqsUpTo(S, n) ==
    IF n = 0 THEN {<<>>}
    ELSE LET less == SeqsUpTo(S, n - 1)
         IN  less \cup {Append(q, x) : q \in less, x \in S}

ListingOf(items, source) ==
    LET mine == SelectSeq(items, LAMBDA it : it.source = source)
    IN  Listing([i \in 1..Len(mine) |-> mine[i].raw])

\* the source account that shows the items, each in its listing and in order
WorldOf(items) ==
    [public |-> ListingOf(items, "public"),
     private |-> ListingOf(items, "private"),
     starred |-> [u \in {"", UserName} |-> ListingOf(items, "starred")],
     orgs |-> [u \in {"", UserName} |-> Listing(<<"acme">>)],
     orgPublic |-> [o \in {"acme"} |-> ListingOf(items, "org")],
     orgSearch |-> [o \in {"acme"} |-> ListingOf(items, "org")],
     all |-> {items[i].raw : i \in 1..Len(items)}, getFails |-> FALSE,
     issues |-> <<>>]

\* FetchOptions of the configurations that differ for the collector
CollectOptions ==
    {FetchOptions(Load([EnvDefault EXCEPT
                          !.MIRROR_PRIVATE_REPOSITORIES = private,
                          !.MIRROR_STARRED = starred,
                          !.MIRROR_ORGANIZATIONS = orgs,
                          !.PRESERVE_ORG_STRUCTURE = preserve,
                          !.SKIP_FORKS = skip])) :
        private \in Flag, starred \in Flag, orgs \in Flag, preserve \in Flag,
        skip \in Flag}

\* the variables of main() that a function checked on its own leaves alone
Idle ==
    /\ env = EnvDefault
    /\ github = World
    /\ dest = [orgs |-> {}, mirrors |-> {}]
    /\ cfg = NoConfig
    /\ giteaUser = NoTarget
    /\ uniqueOrgs = {}
    /\ orgTargets = <<>>
    /\ idx = 1
    /\ exitStatus = 0
    /\ run = 1
    /\ faults = 0
    /\ calls = <<>>
    /\ mutations = {}
    /\ last = NoLast
    /\ processed = <<>>
    /\ hist = NoHist

\* the include and exclude lists the filter stage is run with
CollectFilters ==
    {[include |-> << <<"*">> >>, exclude |-> <<>>],
     [include |-> << <<"*">> >>, exclude |-> << <<"b">> >>]}

InitCollect ==
    /\ Idle
    /\ pc = "callGet"
    /\ filteredRepos = <<>>
    /\ \E items \in SeqsUpTo(Listed, MaxListed), opts \in CollectOptions :
          io = [in |-> [items |-> items, src |-> WorldOf(items), opts |-> opts,
                        filters |-> CollectFilters],
                out |-> <<>>]

\* main.go:61
CallGetRepositories ==
    /\ pc = "callGet"
    /\ io' = [io EXCEPT !.out = GetRepositories(io.in.src, EnvDefault.GITHUB_TOKEN,
                                                io.in.opts)]
    /\ pc' = IF io'.out.err THEN "fatal" ELSE "gotRepos"
    /\ UNCHANGED <<env, github, dest, cfg, filteredRepos, giteaUser, uniqueOrgs,
                   orgTargets, idx, exitStatus, run, faults, calls, mutations, last,
                   processed, hist>>

\* main.go:65, with one of the filters, which is kept as the only one
CallFilterStage ==
    /\ pc = "gotRepos"
    /\ \E f \in io.in.filters :
          /\ filteredRepos' = filterRepositories(io.out.repos, f.include, f.exclude)
          /\ io' = [io EXCEPT !.in.filters = {f}]
    /\ pc' = "filtered"
    /\ UNCHANGED <<env, github, dest, cfg, giteaUser, uniqueOrgs,
                   orgTargets, idx, exitStatus, run, faults, calls, mutations, last,
                   processed, hist>>

NextCollect ==
    \/ CallGetRepositories
    \/ CallFilterStage

SpecCollect == InitCollect /\ [][NextCollect]_vars

(***************************************************************************)
(* GetRepositories with a single repository named: the tokens of the runs  *)
(* and the token of a fork, under every combination of the other options,  *)
(* for an account whose listings show one repository at most and at which  *)
(* the named repository exists or not, its lookup answered or not.         *)
(***************************************************************************)
rG == Raw(<<"g">>, "gh/x/g", "x", FALSE, FALSE, TRUE)

\* besides: the fork x/g, and an owner with an empty name
SingleLookups == SingleTokens \cup {<<"x", "/", "g">>, <<"x", "/">>}

InitSingle ==
    /\ Idle
    /\ pc = "callGet"
    /\ filteredRepos = <<>>
    /\ \E items \in SeqsUpTo(Listed, 1), opts \in CollectOptions,
          tok \in SingleLookups, all \in {{}, {rA, rX, rG}}, getFails \in BOOLEAN :
          io = [in |-> [items |-> items,
                        src |-> [WorldOf(items) EXCEPT !.all = all,
                                                       !.getFails = getFails],
                        opts |-> [opts EXCEPT !.SingleRepo = tok],
                        filters |-> CollectFilters],
                out |-> <<>>]

SpecSingle == InitSingle /\ [][CallGetRepositories]_vars

(***************************************************************************)
(* The collector and the filter stage on forks: the account owns la, the   *)
(* fork lb and x, and has starred la and lb; the filter keeps the names    *)
(* l*, or all names but lb; a single repository, the fork x/g, is named    *)
(* or none is.                                                             *)
(***************************************************************************)
rLa == Raw(<<"l", "a">>, "gh/me/la", "me", FALSE, FALSE, FALSE)
rLb == Raw(<<"l", "b">>, "gh/me/lb", "me", FALSE, FALSE, TRUE)
rApp == Raw(<<"x">>, "gh/me/x", "me", FALSE, FALSE, FALSE)

ListedForks ==
    {[source |-> "public", raw |-> r] : r \in {rLa, rLb, rApp}}
    \cup {[source |-> "starred", raw |-> r] : r \in {rLa, rLb}}

ForkFilters ==
    {[include |-> << <<"l", "*">> >>, exclude |-> <<>>],
     [include |-> << <<"*">> >>, exclude |-> << <<"l", "b">> >>]}

InitForks ==
    /\ Idle
    /\ pc = "callGet"
    /\ filteredRepos = <<>>
    /\ \E items \in SeqsUpTo(ListedForks, MaxListed), opts \in CollectOptions,
          tok \in {<<>>, <<"x", "/", "g">>} :
          io = [in |-> [items |-> items,
                        src |-> [WorldOf(items) EXCEPT !.all = @ \cup {rG}],
                        opts |-> [opts EXCEPT !.SingleRepo = tok],
                        filters |-> ForkFilters],
                out |-> <<>>]

SpecForks == InitForks /\ [][NextCollect]_vars

(***************************************************************************)
(* MirrorIssues on its own: a repository whose source lists up to          *)
(* MaxIssueList issues in any order, page by page; issue 1 has one label,  *)
(* issue 2 none, the others two; the repository has issues or not, the run *)
(* is dry or not, the repository exists at the target or not; the request  *)
(* for one page of the listing may fail, and for each issue its creation,  *)
(* the creation of a label or the labelling may fail.                      *)
(***************************************************************************)
MaxIssueList == 3

IssueNumbers == 1..MaxIssueList

LabelsOf(n) == CASE n = 1 -> <<"bug">>
                 [] n = 2 -> <<>>
                 [] OTHER -> <<"bug", "ui">>

\* the lists of at most k issue numbers, none twice
RECURSIVE IssueLists(_)
IssueLists(k) ==
    IF k = 0 THEN {<<>>}
    ELSE LET less == IssueLists(k - 1)
         IN  less \cup {Append(q[1], q[2]) :
                          q \in {q \in less \X IssueNumbers : q[2] \notin Range(q[1])}}

IssueFaultKinds == {"none", "issue", "label", "attach"}

InitIssues ==
    /\ Idle
    /\ pc = "callIssues"
    /\ filteredRepos = <<>>
    /\ \E numbers \in IssueLists(MaxIssueList), hasIssues \in BOOLEAN,
          dryRun \in BOOLEAN, present \in BOOLEAN :
          \E F \in [Range(numbers) -> IssueFaultKinds],
             page \in 0..NumPages(numbers) :
             io = [in |-> [issues |-> [k \in 1..Len(numbers) |->
                                         [number |-> numbers[k],
                                          labels |-> LabelsOf(numbers[k])]],
                           repo |-> [toRepository(rA, FALSE) EXCEPT
                                       !.HasIssues = hasIssues],
                           target |-> [Name |-> UserName, ID |-> IdOf(UserName),
                                       Type |-> "user"],
                           dryRun |-> dryRun,
                           dest |-> [orgs |-> {},
                                     mirrors |-> IF present
                                                 THEN {<<UserName, <<"a">>>>}
                                                 ELSE {}],
                           S |-> (IF page = 0 THEN {} ELSE {Pt("fetch", page - 1)})
                                 \cup {Pt(F[n], n) :
                                         n \in {m \in Range(numbers) :
                                                  F[m] # "none"}}],
                   out |-> <<>>]

\* main.go:232
CallMirrorIssues ==
    /\ pc = "callIssues"
    /\ io' = [io EXCEPT !.out =
                 MirrorIssues(io.in.dest,
                              [github EXCEPT !.issues =
                                 [u \in DOMAIN @ |-> io.in.issues]],
                              io.in.repo, io.in.target, EnvDefault.GITHUB_TOKEN,
                              io.in.dryRun, io.in.S)]
    /\ calls' = io'.out.calls
    /\ pc' = IF io'.out.err THEN "issuesFailed" ELSE "issuesDone"
    /\ UNCHANGED <<env, github, dest, cfg, filteredRepos, giteaUser, uniqueOrgs,
                   orgTargets, idx, exitStatus, run, faults, mutations, last,
                   processed, hist>>

SpecIssues == InitIssues /\ [][CallMirrorIssues]_vars

(***************************************************************************)
(* filterRepositories on its own: lists of up to MaxRepos repositories     *)
(* named a, ab or b, told apart by their URL, and include and exclude      *)
(* lists of up to MaxPatterns patterns, one of them malformed.             *)
(***************************************************************************)
MaxRepos == 2
MaxPatterns == 2

FilterNames == {<<"a">>, <<"a", "b">>, <<"b">>}

FilterPatterns == {<<"*">>, <<"a", "*">>, <<"b">>, <<"[">>}

\* the k-th repository of a list, of the given name
Named(names) ==
    [k \in 1..Len(names) |-> [NoRepo EXCEPT !.Name = names[k], !.URL = k]]

InitFilter ==
    /\ Idle
    /\ pc = "callFilter"
    /\ filteredRepos = <<>>
    /\ \E names \in SeqsUpTo(FilterNames, MaxRepos),
          include \in SeqsUpTo(FilterPatterns, MaxPatterns),
          exclude \in SeqsUpTo(FilterPatterns, MaxPatterns) :
          io = [in |-> [repos |-> Named(names), include |-> include,
                        exclude |-> exclude],
                out |-> <<>>]

\* main.go:65
CallFilterRepositories ==
    /\ pc = "callFilter"
    /\ io' = [io EXCEPT !.out = filterRepositories(io.in.repos, io.in.include,
                                                   io.in.exclude)]
    /\ filteredRepos' = io'.out
    /\ pc' = "filterDone"
    /\ UNCHANGED <<env, github, dest, cfg, giteaUser, uniqueOrgs,
                   orgTargets, idx, exitStatus, run, faults, calls, mutations, last,
                   processed, hist>>

SpecFilter == InitFilter /\ [][CallFilterRepositories]_vars

\* filterRepositories applied to what it returned, with the same patterns
CallFilterRepositoriesAgain ==
    /\ pc = "filterDone"
    /\ filteredRepos' = filterRepositories(io.out, io.in.include, io.in.exclude)
    /\ pc' = "filteredAgain"
    /\ UNCHANGED <<io, env, github, dest, cfg, giteaUser, uniqueOrgs,
                   orgTargets, idx, exitStatus, run, faults, calls, mutations, last,
                   processed, hist>>

NextRefilter ==
    \/ CallFilterRepositories
    \/ CallFilterRepositoriesAgain

SpecRefilter == InitFilter /\ [][NextRefilter]_vars

(***************************************************************************)
(* fetchOrganizationRepositories on its own: the account sees up to two    *)
(* organizations, acme (none, one or a page and one more of its            *)
(* repositories) and beta (one repository); the request for the list of    *)
(* organizations or for a page of a listing may fail; the include and      *)
(* exclude lists hold up to MaxOrgNames names.                             *)
(***************************************************************************)
MaxOrgNames == 2

rC == Raw(<<"c">>, "gh/acme/c", "acme", FALSE, FALSE, FALSE)
rE == Raw(<<"e">>, "gh/acme/e", "acme", FALSE, FALSE, FALSE)
rD == Raw(<<"d">>, "gh/beta/d", "beta", FALSE, FALSE, FALSE)

AcmeRepos == <<rB, rC, rE>>

OrgNames == {"acme", "beta"}

\* what the source lists for acme and beta, and the page whose request fails
OrgListings ==
    {[acme |-> [items |-> SubSeq(AcmeRepos, 1, n), failAt |-> fa],
      beta |-> [items |-> <<rD>>, failAt |-> fb]] :
        n \in {0, 1, PageSize + 1}, fa \in 0..2, fb \in 0..1}

VisibleOrgs ==
    {<<>>, <<"acme">>, <<"beta">>, <<"acme", "beta">>, <<"beta", "acme">>}

OrgWorld(visible, failAt, listings) ==
    [World EXCEPT
       !.orgs = [u \in {"", UserName} |-> [items |-> visible, failAt |-> failAt]],
       !.orgPublic = listings,
       !.orgSearch = listings]

InitOrgs ==
    /\ Idle
    /\ pc = "callOrgs"
    /\ filteredRepos = <<>>
    /\ \E visible \in VisibleOrgs, failAt \in 0..1, listings \in OrgListings,
          includeOrgs \in SeqsUpTo(OrgNames, MaxOrgNames),
          excludeOrgs \in SeqsUpTo(OrgNames, MaxOrgNames),
          preserve \in BOOLEAN, private \in BOOLEAN :
          io = [in |-> [src |-> OrgWorld(visible, failAt, listings),
                        visible |-> visible, listings |-> listings,
                        includeOrgs |-> includeOrgs, excludeOrgs |-> excludeOrgs,
                        preserveOrgStructure |-> preserve,
                        privateRepoAccess |-> private],
                out |-> <<>>]

\* part_001:96
CallFetchOrganizationRepositories ==
    /\ pc = "callOrgs"
    /\ io' = [io EXCEPT !.out =
                 fetchOrganizationRepositories(io.in.src, "", io.in.includeOrgs,
                     io.in.excludeOrgs, io.in.preserveOrgStructure,
                     io.in.privateRepoAccess)]
    /\ pc' = IF io'.out.err THEN "orgsFailed" ELSE "orgsDone"
    /\ UNCHANGED <<env, github, dest, cfg, filteredRepos, giteaUser, uniqueOrgs,
                   orgTargets, idx, exitStatus, run, faults, calls, mutations, last,
                   processed, hist>>

SpecOrgs == InitOrgs /\ [][CallFetchOrganizationRepositories]_vars

(***************************************************************************)
(* main() with structure preservation: the account me owns a, has starred  *)
(* acme's b, and belongs to acme (b, c) and beta (d); organizations are    *)
(* mirrored with their structure, starred repositories are or are not, a   *)
(* default organization is configured or not, the run is dry or not.       *)
(***************************************************************************)
PreserveEnvs ==
    {[EnvDefault EXCEPT !.MIRROR_ORGANIZATIONS = "true",
                        !.PRESERVE_ORG_STRUCTURE = "true",
                        !.MIRROR_STARRED = starred, !.GITEA_ORGANIZATION = org,
                        !.DRY_RUN = dry] :
        starred \in Flag, org \in {"", "dorg"}, dry \in Flag}

WorldPreserve ==
    [public |-> Listing(<<rA>>), private |-> Listing(<<>>),
     starred |-> [u \in {"", UserName} |-> Listing(<<rB>>)],
     orgs |-> [u \in {"", UserName} |-> Listing(<<"acme", "beta">>)],
     orgPublic |-> [o \in {"acme", "beta"} |->
                      IF o = "acme" THEN Listing(<<rB, rC>>) ELSE Listing(<<rD>>)],
     orgSearch |-> [o \in {"acme", "beta"} |->
                      IF o = "acme" THEN Listing(<<rB, rC>>) ELSE Listing(<<rD>>)],
     all |-> {rA, rB, rC, rD}, getFails |-> FALSE,
     issues |-> [u \in {"gh/me/a", "gh/acme/b", "gh/acme/c", "gh/beta/d"} |-> <<>>]]

InitPreserve ==
    /\ env \in PreserveEnvs
    /\ github = WorldPreserve
    /\ dest \in DestInits
    /\ pc = "load"
    /\ cfg = NoConfig
    /\ filteredRepos = <<>>
    /\ giteaUser = NoTarget
    /\ uniqueOrgs = {}
    /\ orgTargets = <<>>
    /\ idx = 1
    /\ exitStatus = 0
    /\ run = 1
    /\ faults = 0
    /\ calls = <<>>
    /\ mutations = {}
    /\ last = NoLast
    /\ processed = <<>>
    /\ hist = NoHist
    /\ io = NoIO

SpecPreserve == InitPreserve /\ [][Next]_vars

(***************************************************************************)
(* A dry run followed by a real one: main() is run with DRY_RUN set and,   *)
(* when it has completed, again with DRY_RUN unset and everything else as  *)
(* it was; no request fails in either run. The account is the one of       *)
(* WorldPreserve; a default and a starred organization are configured or   *)
(* not, structure is preserved or not, and the destination has all, or     *)
(* none, of the organizations.                                             *)
(***************************************************************************)
DryEnvs ==
    {[EnvDefault EXCEPT !.DRY_RUN = "true", !.MIRROR_ORGANIZATIONS = "true",
                        !.MIRROR_STARRED = "true",
                        !.PRESERVE_ORG_STRUCTURE = preserve,
                        !.GITEA_ORGANIZATION = org,
                        !.GITEA_STARRED_ORGANIZATION = sorg] :
        preserve \in Flag, org \in {"", "dorg"}, sorg \in {"", "stars"}}

InitDryThenReal ==
    /\ env \in DryEnvs
    /\ github = WorldPreserve
    /\ dest \in DestInits
    /\ pc = "load"
    /\ cfg = NoConfig
    /\ filteredRepos = <<>>
    /\ giteaUser = NoTarget
    /\ uniqueOrgs = {}
    /\ orgTargets = <<>>
    /\ idx = 1
    /\ exitStatus = 0
    /\ run = 1
    /\ faults = MaxFaults
    /\ calls = <<>>
    /\ mutations = {}
    /\ last = NoLast
    /\ processed = <<>>
    /\ hist = NoHist
    /\ io = NoIO

\* the binary is started again with DRY_RUN unset; io.in keeps what the dry
\* run processed and the destination it ran against
RerunForReal ==
    /\ pc = "done"
    /\ exitStatus = 0
    /\ readBoolean(env.DRY_RUN)
    /\ env' = [env EXCEPT !.DRY_RUN = ""]
    /\ io' = [in |-> [dry |-> processed, dest |-> dest], out |-> <<>>]
    /\ run' = run + 1
    /\ pc' = "load"
    /\ cfg' = NoConfig
    /\ filteredRepos' = <<>>
    /\ giteaUser' = NoTarget
    /\ uniqueOrgs' = {}
    /\ orgTargets' = <<>>
    /\ idx' = 1
    /\ calls' = <<>>
    /\ mutations' = {}
    /\ last' = NoLast
    /\ processed' = <<>>
    /\ hist' = NoHist
    /\ UNCHANGED <<github, dest, exitStatus, faults>>

NextDryThenReal ==
    \/ LoadConfig
    \/ PrepOrg
    \/ PrepStarredOrg
    \/ Collect
    \/ GetUserStep
    \/ PreResolve
    \/ MirrorStep
    \/ Complete
    \/ RerunForReal

SpecDryThenReal == InitDryThenReal /\ [][NextDryThenReal]_vars

(***************************************************************************)
(* Properties of a run                                                     *)
(***************************************************************************)
Configured == ~cfg.err

\* positions in calls of the destination requests of the given kinds
CallsOf(kinds) ==
    {i \in 1..Len(calls) : calls[i].to = "gitea" /\ calls[i].kind \in kinds}

IssueKinds == {"createIssue", "createLabel", "attachLabel"}

OrgTarget(orgName) ==
    [ID |-> IdOf(orgName), Name |-> orgName, Type |-> "organization"]

\* C1: with dry-run enabled no step of a run (organization preparation,
\* pre-resolution, the repository loop) sends a mutating destination request
\* and the destination's organizations stay as they were
C1_DryRunSendsNoMutation ==
    (Configured /\ cfg.DryRun) =>
        /\ mutations = {}
        /\ CallsOf(MutatingKinds) = {}
        /\ ~hist.orgCreated
        /\ hist.ok = {}

\* an absent starred repository went through mirrorRepository under dry-run,
\* after the destination organization and the source organizations were prepared
C1_Witness ==
    /\ Configured /\ cfg.DryRun
    /\ cfg.Gitea.Organization # "" /\ cfg.GitHub.PreserveOrgStructure
    /\ last.step = "mirror" /\ last.repo.Starred /\ ~last.already
    /\ \E i \in 1..Len(filteredRepos) : filteredRepos[i].Organization # ""

\* the second of two consecutive runs collected what the first collected
SecondRun ==
    /\ run >= 2
    /\ pc \in {"mirror", "done"}
    /\ filteredRepos = hist.prevRepos

\* repositories of this run for which a mirror-create request was sent
CreateCalled == {processed[i].repo : i \in {j \in 1..Len(processed) :
                                               processed[j].create # "none"}}

\* C2 as claimed: the second run sends no mirror-create request for a
\* repository whose mirror the first run created, the second run changing
\* nothing at the destination
C2_NoSecondCreate ==
    (SecondRun /\ ~hist.orgCreated /\ hist.ok = {}) =>
        CreateCalled \cap hist.prevOk = {}

\* C2 restricted to runs in which every organization lookup and existence
\* check was answered from the destination's state: there it holds
C2_NoSecondCreateWhenLookupsAnswered ==
    (SecondRun /\ ~hist.orgCreated /\ ~hist.readFault /\ ~hist.prevReadFault) =>
        CreateCalled \cap hist.prevOk = {}

\* the second run went through a repository the first run had mirrored
C2_SecondRunSkips ==
    /\ SecondRun /\ ~hist.orgCreated /\ ~hist.readFault /\ ~hist.prevReadFault
    /\ pc = "done"
    /\ \E i \in 1..Len(processed) :
          processed[i].repo \in hist.prevOk /\ processed[i].create = "none"

\* the first run answered every lookup; in the second the existence check of
\* a repository the first run mirrored got no answer, IsRepositoryMirrored
\* reported it absent with no error, and a mirror-create request was sent
C2_Witness ==
    /\ SecondRun /\ ~hist.orgCreated /\ ~hist.prevReadFault
    /\ last.step = "mirror" /\ last.S = {Pt("exist", 0)}
    /\ last.repo \in hist.prevOk
    /\ ~last.already /\ last.create = "failed"
    /\ CallsOf({"migrate"}) # {}

\* C3: for a repository the existence check reports as mirrored no
\* mirror-create and no issue or label request is sent; no mutation at all
\* when it is not starred or dry-run is on; exactly one star request, the
\* last request of the call, when it is starred and dry-run is off
C3_AlreadyMirroredOnlyStars ==
    (last.step = "mirror" /\ last.already) =>
        /\ CallsOf({"migrate"} \cup IssueKinds) = {}
        /\ last.create = "none" /\ ~last.issuesStarted
        /\ IF last.repo.Starred /\ ~cfg.DryRun
           THEN /\ CallsOf(MutatingKinds) = {Len(calls)}
                /\ calls[Len(calls)] =
                      Req("gitea", "PUT", "star", last.target.Name, last.repo.Name, "")
           ELSE CallsOf(MutatingKinds) = {}

C3_Witness ==
    /\ last.step = "mirror" /\ last.already
    /\ last.repo.Starred /\ ~cfg.DryRun
    /\ CallsOf({"star"}) # {}

\* C6: a starred repository goes to the starred-repositories organization
\* whenever that organization is configured and its lookup succeeds,
\* whatever the other settings are
C6_StarredGoesToStarredOrg ==
    (/\ last.step = "mirror" /\ last.repo.Starred
     /\ cfg.Gitea.StarredReposOrg # ""
     /\ cfg.Gitea.StarredReposOrg \in dest.orgs
     /\ Pt("sorg", 0) \notin last.S) =>
        /\ last.target = OrgTarget(cfg.Gitea.StarredReposOrg)
        /\ \A i \in CallsOf({"migrate", "repo", "star"} \cup IssueKinds) :
              calls[i].owner = cfg.Gitea.StarredReposOrg

\* a starred repository was mirrored into the starred organization although a
\* default organization exists and structure preservation is on
C6_Witness ==
    /\ last.step = "mirror" /\ last.repo.Starred /\ last.create = "ok"
    /\ last.target.Name = cfg.Gitea.StarredReposOrg
    /\ cfg.Gitea.Organization \in dest.orgs
    /\ cfg.GitHub.PreserveOrgStructure

\* C7 as claimed: when the mirror was created or already existed, a failed
\* star request leaves the repository's outcome a success, and it is sent once
C7_StarFailureIsNoError ==
    (last.step = "mirror" /\ (last.create = "ok" \/ last.already)) =>
        /\ last.starFailed => last.err = NoError
        /\ Cardinality(CallsOf({"star"})) <= 1

\* a starred repository was already mirrored, its star request failed and
\* mirrorRepository returned that error
C7_Witness ==
    /\ last.step = "mirror" /\ last.already /\ last.repo.Starred
    /\ last.starFailed /\ last.err = "star"
    /\ Cardinality(CallsOf({"star"})) = 1

\* C8: issue replication starts exactly when the call's mirror-create
\* succeeded, issue mirroring is on, dry-run is off and the repository is not
\* a starred one whose issues are skipped; its requests come after the
\* mirror-create and the star request; its failure is no error
C8_IssuesStartExactlyAfterCreate ==
    last.step = "mirror" =>
        /\ last.issuesStarted <=>
              (/\ last.create = "ok"
               /\ cfg.GitHub.MirrorIssues
               /\ ~cfg.DryRun
               /\ ~(last.repo.Starred /\ cfg.GitHub.SkipStarredIssues))
        /\ ~last.issuesStarted =>
              /\ CallsOf(IssueKinds) = {}
              /\ \A i \in 1..Len(calls) : calls[i].kind # "issues"
        /\ \A i \in 1..Len(calls) :
              (calls[i].kind \in IssueKinds \cup {"issues"}) =>
                  /\ \E j \in CallsOf({"migrate"}) : j < i
                  /\ \A j \in CallsOf({"migrate", "star"}) : j < i
                  /\ last.repo.Starred => \E j \in CallsOf({"star"}) : j < i
        /\ last.issuesFailed => last.err = NoError

\* issue replication of a starred repository started after its star request,
\* and failed
C8_Witness ==
    /\ last.step = "mirror" /\ last.issuesStarted /\ last.issuesFailed
    /\ last.repo.Starred
    /\ CallsOf({"star"}) # {}

\* the loop processed the first idx - 1 repositories, once each and in list
\* order; only a step before the loop ends a run with a failure status
C9_LoopInvariant ==
    /\ pc \in {"mirror", "done"} =>
          /\ exitStatus = 0
          /\ [i \in 1..Len(processed) |-> processed[i].repo]
               = SubSeq(filteredRepos, 1, idx - 1)
    /\ pc = "done" => Len(processed) = Len(filteredRepos)
    /\ pc = "fatal" => processed = <<>> /\ exitStatus = 1
    /\ exitStatus # 0 => pc = "fatal"

\* C9: an error of mirrorRepository never ends the run: the repositories are
\* processed once each in list order, whatever a call returns the loop goes on
\* to the next repository and, after the last one, to the completion line,
\* and the exit status stays 0
C9_RepositoryErrorsDoNotStopRun ==
    /\ []C9_LoopInvariant
    /\ [][pc = "mirror" =>
            /\ exitStatus' = 0
            /\ IF idx <= Len(filteredRepos)
               THEN /\ pc' = "mirror" /\ idx' = idx + 1
                    /\ processed' = Append(processed, processed'[idx])
                    /\ processed'[idx].repo = filteredRepos[idx]
               ELSE pc' = "done"]_vars

\* a run completed after the first of its repositories failed
C9_Witness ==
    /\ pc = "done" /\ exitStatus = 0
    /\ Len(processed) >= 2
    /\ processed[1].err # NoError

\* C10: the default target is the configured organization when one is
\* configured and its lookup succeeds and the destination user otherwise;
\* resolving creates no organization, and every repository gets a target
C10_DefaultTarget ==
    last.step = "mirror" =>
        /\ last.default =>
              last.target =
                IF /\ cfg.Gitea.Organization # ""
                   /\ cfg.Gitea.Organization \in dest.orgs
                   /\ Pt("dorg", 0) \notin last.S
                THEN OrgTarget(cfg.Gitea.Organization)
                ELSE giteaUser
        /\ CallsOf({"createOrg"}) = {}
        /\ last.target.Type \in {"user", "organization"}
        /\ last.target.Name \in {UserName} \cup dest.orgs

\* the starred organization was not found and the configured organization
\* was: the starred repository fell back to the configured organization
C10_Witness ==
    /\ last.step = "mirror" /\ last.default /\ last.rule = "starred"
    /\ last.target = OrgTarget(cfg.Gitea.Organization)

\* Load asks for a source token: private, issue, starred or organization
\* mirroring is on, or a single repository is named (part_000:108-122)
CredentialRequired(c) ==
    \/ c.GitHub.PrivateRepositories
    \/ c.GitHub.MirrorIssues
    \/ c.GitHub.MirrorStarred
    \/ c.GitHub.MirrorOrganizations
    \/ c.GitHub.SingleRepo # <<>>

\* C11 as claimed: a mirror-create request carries the source credential
\* only when the repository is private or the configuration requires a
\* source credential; for a public repository without such a requirement
\* it carries none
C11_CredentialOnlyWhenNeeded ==
    last.step = "mirror" =>
        \A i \in CallsOf({"migrate"}) :
            calls[i].token # "" => (last.repo.Private \/ CredentialRequired(cfg))

\* a public repository was mirrored under a configuration that sets a
\* source token and requires none, and the request carried the token
C11_Witness ==
    /\ last.step = "mirror" /\ last.create = "ok"
    /\ ~last.repo.Private /\ ~CredentialRequired(cfg)
    /\ \E i \in CallsOf({"migrate"}) : calls[i].token = cfg.GitHub.Token
    /\ cfg.GitHub.Token # ""

(***************************************************************************)
(* Properties of GetRepositories and filterRepositories                    *)
(***************************************************************************)
Urls(repos) == {repos[i].URL : i \in 1..Len(repos)}

UniqueUrls(repos) ==
    \A i, j \in 1..Len(repos) : repos[i].URL = repos[j].URL => i = j

\* whether the options make GetRepositories read the listing
Enabled(source, opts) ==
    CASE source = "public" -> TRUE
      [] source = "private" -> opts.PrivateRepositories
      [] source = "starred" -> opts.MirrorStarred
      [] source = "org" -> opts.MirrorOrganizations

Rank(source) ==
    CASE source = "public" -> 1
      [] source = "private" -> 2
      [] source = "starred" -> 3
      [] source = "org" -> 4

\* positions of the listed items whose listing is read and shows the URL
Showing(url) ==
    {i \in 1..Len(io.in.items) :
        /\ Enabled(io.in.items[i].source, io.in.opts)
        /\ io.in.items[i].raw.url = url}

\* the first of them in the order public, private, starred, organization
FirstSeen(url) ==
    LET first == CHOOSE i \in Showing(url) :
                    \A j \in Showing(url) :
                       \/ Rank(io.in.items[i].source) < Rank(io.in.items[j].source)
                       \/ /\ Rank(io.in.items[i].source) = Rank(io.in.items[j].source)
                          /\ i <= j
    IN  io.in.items[first]

\* C4: without a single-repository override the list GetRepositories returns
\* holds no clone URL twice; the record kept for a URL is the first one seen
\* in the order public, private, starred, organization (an owned and starred
\* repository is kept as owned, Starred = FALSE); every URL a read listing
\* shows is kept unless forks are skipped and it is one; and the list the
\* filter stage retains holds no clone URL twice either
C4_FirstSeenPerCloneURL ==
    (pc \in {"gotRepos", "filtered"} /\ io.in.opts.SingleRepo = <<>>) =>
        LET repos == io.out.repos
        IN  /\ UniqueUrls(repos)
            /\ \A i \in 1..Len(repos) :
                  /\ Showing(repos[i].URL) # {}
                  /\ LET f == FirstSeen(repos[i].URL)
                     IN  /\ repos[i].Starred = (f.source = "starred")
                         /\ repos[i].Organization =
                               IF f.source = "org" /\ io.in.opts.PreserveOrgStructure
                               THEN "acme" ELSE ""
                         /\ repos[i].Name = f.raw.name
                         /\ repos[i].Owner = f.raw.owner
            /\ \A k \in 1..Len(io.in.items) :
                  LET it == io.in.items[k]
                  IN  (Enabled(it.source, io.in.opts)
                       /\ ~(io.in.opts.SkipForks /\ it.raw.fork))
                      => it.raw.url \in Urls(repos)
            /\ pc = "filtered" =>
                  /\ UniqueUrls(filteredRepos)
                  /\ Urls(filteredRepos) \subseteq Urls(repos)

\* a repository shown as owned and as starred, and shown twice as starred,
\* was collected once, as owned, and went through the filter stage
C4_Witness ==
    /\ pc = "filtered" /\ io.in.opts.MirrorStarred
    /\ \E i, j, k \in 1..Len(io.in.items) :
          /\ j # k
          /\ io.in.items[i] = [source |-> "public", raw |-> rA]
          /\ io.in.items[j] = [source |-> "starred", raw |-> rA]
          /\ io.in.items[k] = [source |-> "starred", raw |-> rA]
    /\ \E i \in 1..Len(filteredRepos) :
          filteredRepos[i].URL = rA.url /\ ~filteredRepos[i].Starred

\* the name matches one of the patterns, a malformed pattern matching nothing
MatchesOne(patterns, name) ==
    \E i \in 1..Len(patterns) :
        ~Malformed(patterns[i]) /\ GlobMatch(patterns[i], name)

Retained(repo) ==
    /\ MatchesOne(io.in.include, repo.Name)
    /\ ~MatchesOne(io.in.exclude, repo.Name)

\* C5: filterRepositories returns, in their input order, exactly the
\* repositories whose name matches an include pattern and no exclude
\* pattern; a malformed pattern matches nothing and the call returns
C5_RetainedIffIncludedAndNotExcluded ==
    pc = "filterDone" =>
        /\ io.out = SelectSeq(io.in.repos, Retained)
        /\ \A i \in 1..Len(io.in.repos) :
              LET repo == io.in.repos[i]
              IN  /\ repo \in Range(io.out) <=> Retained(repo)
                  /\ (MatchesOne(io.in.include, repo.Name)
                      /\ MatchesOne(io.in.exclude, repo.Name))
                     => repo \notin Range(io.out)
        /\ \A i, j \in 1..Len(io.out) : i < j => io.out[i].URL < io.out[j].URL

\* of three cases at once: a repository matching an include and an exclude
\* pattern was dropped, one matching only an include pattern was kept, a
\* malformed pattern stood in each list
C5_Witness ==
    /\ pc = "filterDone"
    /\ \E i \in 1..Len(io.in.include) : Malformed(io.in.include[i])
    /\ \E i \in 1..Len(io.in.exclude) : Malformed(io.in.exclude[i])
    /\ \E i \in 1..Len(io.in.repos) :
          /\ MatchesOne(io.in.include, io.in.repos[i].Name)
          /\ MatchesOne(io.in.exclude, io.in.repos[i].Name)
          /\ io.in.repos[i] \notin Range(io.out)
    /\ io.out # <<>>

(***************************************************************************)
(* Properties of fetchOrganizationRepositories                             *)
(***************************************************************************)
InList(list, name) == \E i \in 1..Len(list) : list[i] = name

\* the visible organizations that pass the include and the exclude list
RetainedOrgs ==
    {o \in Range(io.in.visible) :
        /\ (io.in.includeOrgs = <<>> \/ InList(io.in.includeOrgs, o))
        /\ ~InList(io.in.excludeOrgs, o)}

\* the request for a page of the organization's listing fails
ListingFails(o) ==
    io.in.listings[o].failAt \in 1..NumPages(io.in.listings[o].items)

\* the organizations whose repositories were asked for
FetchedOrgs ==
    {io.out.reqs[i].owner :
        i \in {j \in 1..Len(io.out.reqs) : io.out.reqs[j].kind = "list-org"}}

ReposOf(o) == {r \in Range(io.out.repos) : r.Owner = o}

\* C12 as claimed: a retained organization whose listing fails on a page
\* contributes no repository, and every repository of every other retained
\* organization is returned
C12_FailedOrganizationIsSkipped ==
    pc = "orgsDone" =>
        \A o \in RetainedOrgs :
            IF ListingFails(o) THEN ReposOf(o) = {}
            ELSE {r.URL : r \in ReposOf(o)}
                   = {io.in.listings[o].items[i].url :
                        i \in 1..Len(io.in.listings[o].items)}

\* the request for the second page of acme's listing failed, the
\* repositories of its first page were returned, and so were beta's
C12_Witness ==
    /\ pc = "orgsDone"
    /\ {"acme", "beta"} \subseteq RetainedOrgs
    /\ ListingFails("acme") /\ ~ListingFails("beta")
    /\ ReposOf("acme") # {} /\ ReposOf("beta") # {}

\* the organizations of the requests for a listing, in the order sent
FetchedInOrder ==
    LET sent == SelectSeq(io.out.reqs, LAMBDA r : r.kind = "list-org")
    IN  [i \in 1..Len(sent) |-> sent[i].owner]

\* C16: the repositories of an organization are asked for exactly when the
\* source lists the organization, its name is in the include list or that
\* list is empty, and its name is not in the exclude list; a name in both
\* lists is never asked for; each is asked for once, in the listed order
C16_OrganizationFetchedIffRetained ==
    /\ pc = "orgsDone" =>
          /\ FetchedOrgs = RetainedOrgs
          /\ FetchedInOrder =
                SelectSeq(io.in.visible, LAMBDA o : o \in RetainedOrgs)
    /\ pc = "orgsFailed" => FetchedOrgs = {}
    /\ pc \in {"orgsDone", "orgsFailed"} =>
          \A o \in OrgNames :
              (InList(io.in.includeOrgs, o) /\ InList(io.in.excludeOrgs, o))
                  => o \notin FetchedOrgs

\* acme stood in both lists and was not asked for, beta stood in the
\* include list only and was
C16_Witness ==
    /\ pc = "orgsDone"
    /\ io.in.visible = <<"acme", "beta">>
    /\ InList(io.in.includeOrgs, "acme") /\ InList(io.in.excludeOrgs, "acme")
    /\ InList(io.in.includeOrgs, "beta")
    /\ FetchedOrgs = {"beta"}

(***************************************************************************)
(* Properties of the configuration                                         *)
(***************************************************************************)
\* the single-repository token does not reduce to owner/name (part_001:121-124)
SingleRepoMalformed(c) ==
    /\ c.GitHub.SingleRepo # <<>>
    /\ Len(SplitSlash(TrimSuffix(TrimPrefix(c.GitHub.SingleRepo)))) # 2

\* C13 as claimed: a run that ends on a configuration error, a missing
\* mandatory setting or a malformed single-repository token, has sent no
\* request to the source or the destination
C13_ConfigurationErrorBeforeAnyRequest ==
    (pc = "fatal" /\ (cfg.err \/ SingleRepoMalformed(cfg))) =>
        /\ exitStatus = 1
        /\ ~hist.sent
        /\ mutations = {}

\* the run ended on a malformed single-repository token after it had
\* created the destination organization
C13_Witness ==
    /\ pc = "fatal" /\ ~cfg.err /\ SingleRepoMalformed(cfg)
    /\ calls = <<>>
    /\ hist.sent /\ hist.orgCreated

\* C14: Load returns an error whenever private mirroring is on and no source
\* token is set, and every request for the private listing carries a
\* non-empty token
C14_PrivateFetchHasToken ==
    /\ (pc # "load" /\ readBoolean(env.MIRROR_PRIVATE_REPOSITORIES)
        /\ env.GITHUB_TOKEN = "") => (cfg.err /\ pc = "fatal" /\ ~hist.sent)
    /\ \A i \in 1..Len(calls) :
          calls[i].kind = "list-private" => calls[i].token # ""

\* a run with private mirroring on asked for the private listing
C14_Witness ==
    /\ pc = "getUser" /\ cfg.GitHub.PrivateRepositories
    /\ \E i \in 1..Len(calls) :
          calls[i].kind = "list-private" /\ calls[i].token = env.GITHUB_TOKEN

(***************************************************************************)
(* Properties of the single-repository mode                                *)
(***************************************************************************)
\* the token without the URL prefix and the .git suffix, cut at the slashes
SingleParts == SplitSlash(TrimSuffix(TrimPrefix(io.in.opts.SingleRepo)))

\* the repositories of the source of the owner and name the token gives
SingleNamed ==
    {r \in io.in.src.all :
        <<r.owner>> = SingleParts[1] /\ r.name = SingleParts[2]}

\* C15: with a single-repository token set GetRepositories requests no
\* listing whatever the other options are; a token that is not owner/name
\* gives an error and no request; otherwise the one request is the lookup
\* of owner/name, and the result is that repository alone, or nothing when
\* it is a fork and forks are skipped
C15_SingleRepositoryOnly ==
    (pc \in {"gotRepos", "fatal"} /\ io.in.opts.SingleRepo # <<>>) =>
        /\ \A i \in 1..Len(io.out.reqs) : io.out.reqs[i].kind = "get-repo"
        /\ IF Len(SingleParts) # 2
           THEN io.out.err /\ io.out.reqs = <<>>
           ELSE /\ Len(io.out.reqs) = 1
                /\ io.out.reqs[1].repo = TrimSuffix(TrimPrefix(io.in.opts.SingleRepo))
                /\ io.out.err <=> (SingleNamed = {} \/ io.in.src.getFails)
        /\ io.out.err => io.out.repos = <<>> /\ pc = "fatal"
        /\ ~io.out.err =>
              /\ Len(io.out.repos) <= 1
              /\ \A i \in 1..Len(io.out.repos) :
                    /\ \E r \in SingleNamed : io.out.repos[i] = toRepository(r, FALSE)
                    /\ ~(io.in.opts.SkipForks /\ io.out.repos[i].Fork)
              /\ io.out.repos = <<>> <=>
                    (io.in.opts.SkipForks /\ \A r \in SingleNamed : r.fork)

\* a repository named by its URL was returned alone although every listing
\* was enabled and the starred listing showed it
C15_Witness ==
    /\ pc = "gotRepos"
    /\ io.in.opts.SingleRepo = <<UrlPrefix, "x", "/", "a", GitSuffix>>
    /\ io.in.opts.PrivateRepositories /\ io.in.opts.MirrorStarred
    /\ io.in.opts.MirrorOrganizations
    /\ io.in.items = <<[source |-> "starred", raw |-> rX]>>
    /\ Len(io.out.repos) = 1 /\ io.out.repos[1].URL = rX.url
    /\ ~io.out.repos[1].Starred

(***************************************************************************)
(* Properties of fork skipping                                             *)
(***************************************************************************)
\* what GetRepositories returns for the same source with forks kept
WithForks ==
    GetRepositories(io.in.src, EnvDefault.GITHUB_TOKEN,
                    [io.in.opts EXCEPT !.SkipForks = FALSE]).repos

Passes(f, repo) ==
    MatchesOne(f.include, repo.Name) /\ ~MatchesOne(f.exclude, repo.Name)

\* C17: with fork skipping on no fork is returned by GetRepositories, with a
\* single repository named or not; what is returned is the deduplicated
\* list without its forks; what the filter stage retains is that list's
\* records whose name passes the include and exclude patterns; of la, the
\* fork lb and x under the include pattern l* exactly la is retained
C17_ForksSkippedAfterDeduplication ==
    pc \in {"gotRepos", "filtered"} =>
        /\ io.in.opts.SkipForks =>
              /\ \A i \in 1..Len(io.out.repos) : ~io.out.repos[i].Fork
              /\ io.out.repos = SelectSeq(WithForks, LAMBDA r : ~r.Fork)
        /\ ~io.in.opts.SkipForks => io.out.repos = WithForks
        /\ io.in.opts.SingleRepo = <<>> => UniqueUrls(WithForks)
        /\ pc = "filtered" =>
              \A f \in io.in.filters :
                  /\ filteredRepos =
                        SelectSeq(io.out.repos, LAMBDA r : Passes(f, r))
                  /\ (/\ io.in.opts.SkipForks /\ io.in.opts.SingleRepo = <<>>
                      /\ {io.in.items[i] : i \in 1..Len(io.in.items)}
                            = {[source |-> "public", raw |-> r] :
                                 r \in {rLa, rLb, rApp}}
                      /\ f.include = << <<"l", "*">> >> /\ f.exclude = <<>>)
                     => [i \in 1..Len(filteredRepos) |-> filteredRepos[i].Name]
                          = << <<"l", "a">> >>

\* la, the fork lb and x were listed, forks were skipped and the names l*
\* included: la alone was retained
C17_Witness ==
    /\ pc = "filtered" /\ io.in.opts.SkipForks /\ io.in.opts.SingleRepo = <<>>
    /\ io.in.items = <<[source |-> "public", raw |-> rLa],
                       [source |-> "public", raw |-> rLb],
                       [source |-> "public", raw |-> rApp]>>
    /\ io.in.filters = {[include |-> << <<"l", "*">> >>, exclude |-> <<>>]}
    /\ Len(filteredRepos) = 1 /\ filteredRepos[1].Name = <<"l", "a">>

(***************************************************************************)
(* Properties of MirrorIssues                                              *)
(***************************************************************************)
\* the request for some page of the issue listing fails
FetchFails ==
    \E p \in 1..NumPages(io.in.issues) : Pt("fetch", p - 1) \in io.in.S

\* the issue of number n is created at the destination
Created(n) ==
    /\ <<io.in.target.Name, io.in.repo.Name>> \in io.in.dest.mirrors
    /\ Pt("issue", n) \notin io.in.S

\* the positions in calls of the requests of the given kinds
Positions(kinds) == {j \in 1..Len(calls) : calls[j].kind \in kinds}

\* the position of the last create-issue request before position j, or 0
CreateBefore(j) ==
    LET before == {k \in Positions({"createIssue"}) : k < j}
    IN  IF before = {} THEN 0
        ELSE CHOOSE k \in before : \A m \in before : m <= k

\* C18: when the repository has issues and the run is not dry, and the
\* listing is fetched, the create-issue requests are one per listed issue
\* in listing order, whichever creations or labellings fail, after the
\* requests for the pages; every label request follows the create-issue
\* request of an issue that was created, and names that issue when it
\* names one; when the repository has no issues or the run is dry nothing
\* is requested
C18_OneCreatePerIssueInOrder ==
    pc \in {"issuesDone", "issuesFailed"} =>
        IF ~io.in.repo.HasIssues \/ io.in.dryRun
        THEN calls = <<>> /\ pc = "issuesDone"
        ELSE IF FetchFails
        THEN /\ pc = "issuesFailed"
             /\ \A j \in 1..Len(calls) : calls[j].kind = "issues"
        ELSE /\ pc = "issuesDone"
             /\ LET creates == SelectSeq(calls, LAMBDA c : c.kind = "createIssue")
                IN  [k \in 1..Len(creates) |-> creates[k].issue]
                      = [k \in 1..Len(io.in.issues) |-> io.in.issues[k].number]
             /\ Cardinality(Positions({"issues"})) = NumPages(io.in.issues)
             /\ \A j \in Positions({"issues"}), k \in Positions(IssueKinds) : j < k
             /\ \A j \in Positions({"createLabel", "attachLabel"}) :
                   /\ CreateBefore(j) # 0
                   /\ Created(calls[CreateBefore(j)].issue)
                   /\ calls[j].kind = "attachLabel"
                        => calls[j].issue = calls[CreateBefore(j)].issue

\* issues 3, 1 and 2 were listed in this order, the creation of issue 3
\* failed, and all three creations were requested, with labels for issue 1
C18_Witness ==
    /\ pc = "issuesDone"
    /\ [k \in 1..Len(io.in.issues) |-> io.in.issues[k].number] = <<3, 1, 2>>
    /\ ~Created(3) /\ Created(1)
    /\ Cardinality(Positions({"createIssue"})) = 3
    /\ \E j \in Positions({"attachLabel"}) : calls[j].issue = 1

(***************************************************************************)
(* Properties of filterRepositories applied twice                          *)
(***************************************************************************)
\* C19: filterRepositories applied to its own output with the same include
\* and exclude patterns returns that output
C19_FilterIsIdempotent ==
    pc = "filteredAgain" => filteredRepos = io.out

\* a list that lost one repository and kept another in the first
\* application, under patterns of both lists, was filtered again
C19_Witness ==
    /\ pc = "filteredAgain"
    /\ io.in.include # <<>> /\ io.in.exclude # <<>>
    /\ io.out # <<>> /\ Len(io.out) < Len(io.in.repos)
    /\ filteredRepos = io.out

(***************************************************************************)
(* Properties of structure preservation                                    *)
(***************************************************************************)
\* the organizations the retained repositories carry
CarriedOrgs ==
    {filteredRepos[i].Organization : i \in 1..Len(filteredRepos)} \ {""}

\* the default target of a call of mirrorRepository (main.go:242-251)
DefaultTargetOfLast ==
    IF /\ cfg.Gitea.Organization # ""
       /\ cfg.Gitea.Organization \in dest.orgs
       /\ Pt("dorg", 0) \notin last.S
    THEN OrgTarget(cfg.Gitea.Organization)
    ELSE giteaUser

\* before and in the loop: the organizations still to resolve and the
\* resolved ones are carried ones, none is both, no repository is mirrored
\* before all are handled, and a repository of an organization goes to the
\* target the map has for it, or to the default target
C20_PreResolved ==
    /\ pc = "preResolve" =>
          /\ processed = <<>> /\ idx = 1 /\ last.step # "mirror"
          /\ uniqueOrgs # {} /\ uniqueOrgs \subseteq CarriedOrgs
          /\ DOMAIN orgTargets \subseteq CarriedOrgs \ uniqueOrgs
    /\ pc = "mirror" =>
          /\ uniqueOrgs = {}
          /\ DOMAIN orgTargets \subseteq CarriedOrgs
          /\ \A o \in DOMAIN orgTargets : orgTargets[o] = OrgTarget(o)
    /\ (/\ last.step = "mirror" /\ cfg.GitHub.PreserveOrgStructure
        /\ last.repo.Organization # ""
        /\ ~(last.repo.Starred /\ cfg.Gitea.StarredReposOrg # "")) =>
          /\ last.target = IF last.repo.Organization \in DOMAIN orgTargets
                           THEN orgTargets[last.repo.Organization]
                           ELSE DefaultTargetOfLast
          /\ \A i \in CallsOf({"migrate", "repo"}) :
                calls[i].owner = last.target.Name

\* C20: with structure preservation every organization the retained
\* repositories carry is ensured and looked up in one step of the
\* pre-resolution loop, once, before the first repository is mirrored; the
\* loop over the repositories leaves the map as it is; a repository that
\* carries an organization and is not routed by the starred rule goes to
\* the map's target for it, or to the default target when the map has none
C20_OrganizationsPreResolvedOnce ==
    /\ []C20_PreResolved
    /\ [][/\ (pc # "preResolve" /\ pc' = "preResolve") =>
               /\ cfg.GitHub.PreserveOrgStructure
               /\ uniqueOrgs' = CarriedOrgs /\ orgTargets' = <<>>
          /\ pc = "preResolve" =>
               \E o \in uniqueOrgs :
                  /\ uniqueOrgs' = uniqueOrgs \ {o}
                  /\ pc' = IF uniqueOrgs' = {} THEN "mirror" ELSE "preResolve"
                  /\ orgTargets' \in {orgTargets, (o :> OrgTarget(o)) @@ orgTargets}
                  /\ \A i \in 1..Len(calls') :
                        /\ calls'[i].kind \in {"org", "createOrg"}
                        /\ calls'[i].owner = o
                  /\ Cardinality({i \in 1..Len(calls') :
                                    calls'[i].kind = "createOrg"}) <= 1
                  /\ processed' = <<>>
          /\ pc = "mirror" => orgTargets' = orgTargets]_vars

\* d of beta was mirrored into beta, resolved before the loop, after b of
\* acme went to the default target because acme was not resolved
C20_Witness ==
    /\ last.step = "mirror" /\ last.repo.Organization = "beta"
    /\ last.create = "ok" /\ last.target = OrgTarget("beta")
    /\ DOMAIN orgTargets = {"beta"}
    /\ \E i \in 1..Len(processed) :
          /\ processed[i].repo.Organization = "acme"

(***************************************************************************)
(* Properties of a dry run and the real run that follows it                *)
(***************************************************************************)
\* the real run is under way
RealRun == io # NoIO /\ ~readBoolean(env.DRY_RUN)

\* the dry run logged "Would mirror" for its k-th repository
\* (main.go:197-199, 204-206): it returned no error and found no mirror
DryReported(k) ==
    /\ k \in 1..Len(io.in.dry)
    /\ io.in.dry[k].err = NoError
    /\ <<io.in.dry[k].target.Name, io.in.dry[k].repo.Name>> \notin io.in.dest.mirrors

\* C21 as claimed: the real run processes the repositories the dry run
\* processed, and a repository it mirrors goes into the target the dry run
\* reported for it
C21_DryRunReportsRealTarget ==
    (RealRun /\ last.step = "mirror") =>
        /\ idx - 1 \in 1..Len(io.in.dry)
        /\ io.in.dry[idx - 1].repo = last.repo
        /\ (last.create = "ok" /\ DryReported(idx - 1))
             => io.in.dry[idx - 1].target = last.target

\* a repository was mirrored into an organization the real run created,
\* while the dry run had reported the user for it
C21_Witness ==
    /\ RealRun /\ last.step = "mirror" /\ last.create = "ok"
    /\ DryReported(idx - 1)
    /\ io.in.dry[idx - 1].repo = last.repo
    /\ io.in.dry[idx - 1].target = giteaUser
    /\ last.target.Type = "organization"
    /\ last.target.Name \notin io.in.dest.orgs

(***************************************************************************)
(* Properties of the mirrors one run creates                               *)
(***************************************************************************)
\* the positions of the repositories this run processed before the last one
\* whose mirror it created under the last one's target and name
EarlierSame ==
    {i \in 1..(Len(processed) - 1) :
        /\ processed[i].create = "ok"
        /\ processed[i].target.Name = last.target.Name
        /\ processed[i].repo.Name = last.repo.Name}

====
